---- MODULE Spec2Model ----
(***************************************************************************)
(* IntelliOptics 2.0: state-machine model of the cloud backend's query     *)
(* pipeline (routers/queries.py, utils/detector_alerting.py,               *)
(* services/demo_session_manager.py) and of the cloud worker's model cache *)
(* (worker/detector_inference.py, worker/onnx_worker.py).                  *)
(*                                                                         *)
(* Conventions: a nullable column is an option set ({} is NULL, {v} is the *)
(* value v); confidences and thresholds are hundredths (90 is 0.90).       *)
(***************************************************************************)
EXTENDS Integers, Sequences, FiniteSets, TLC

\* ------------------------------------------------------------------ bounds
\* create_query calls in one run
MaxRequests == 1
\* frames captured by the demo session in one run
MaxDemoFrames == 1
\* submit_feedback / update_query_ground_truth calls in one run
MaxReviews == 2
\* clock ticks (minutes) in one run
MaxTime == 2
\* create_query calls in one run of the alert scenario
MaxAlertCalls == 2
\* /infer requests the worker receives in one run
MaxWorkerRequests == 3
\* capacity of the worker's model cache, scaled down from the 10 of the global
\* instance so that evictions happen within MaxWorkerRequests requests
MaxModels == 2
\* detections in one list given to nms
MaxDets == 3
\* applications of nms to one list
MaxNmsPasses == 2
\* the longest list of detections of mixed classes given to nms
MaxClassDets == 2
\* /infer requests for one (detector_id, role), over all worker processes
MaxDownloads == 3
\* worker processes that share MODEL_CACHE_DIR
MaxProcesses == 2
\* artifacts uploaded for the detector, one after the other
MaxVersions == 2
\* start_session calls and stop_session / stop_all calls on the session manager
MaxStartCalls == 2
MaxStopCalls == 2
\* detections postprocess_yolo hands to the rest of run_detector_inference
MaxPostDets == 2
\* messages in the worker's input queue
MaxMessages == 2
\* deliveries of one message
MaxDeliveries == 2
\* delete_query calls in one run
MaxDeleteCalls == 2
\* RTSP streams configured on the edge device
MaxStreams == 1
\* the largest time a counter of elapsed seconds tells apart
TimerCap == 2
\* cameras the hubs report, and inspection cycles of one worker
MaxCameras == 2
MaxCycles == 2
\* frames the capture thread of the demo session delivers, and manual
\* submit-frame requests
MaxCapturedFrames == 1
MaxManualFrames == 1

\* ------------------------------------------------------- nullable columns
None == {}
Some(v) == {v}
The(o) == CHOOSE v \in o : TRUE

\* ------------------------------------------------------------ input sets
Requests == 1..MaxRequests
\* "d1" is a row of the detectors table; "dX" is an id with no row
DetectorRows == {"d1"}
DetectorIds == {"d1", "dX"}
\* Detector.confidence_threshold of "d1": the column's default, 0.75
DetectorConfidenceThreshold == 75
\* confidence_threshold form values (0.9 is the default, queries.py:99)
Thresholds == {90, 100}
\* what the worker can answer: the "detections" list of its JSON body
WorkerDetections ==
    { <<>>,
      << [label |-> "NO", confidence |-> 30] >>,
      << [label |-> "NO", confidence |-> 30], [label |-> "YES", confidence |-> 95] >>,
      << [label |-> "YES", confidence |-> 100], [label |-> "NO", confidence |-> 100] >> }
\* reviewer input of submit_feedback: label and optional confidence
FeedbackLabels == {"NO"}
FeedbackConfidences == {None, Some(100)}
\* reviewer input of update_query_ground_truth
GroundTruths == {"yes", "NO"}

\* str.lower() / str.upper() on the labels that occur
Lower(s) ==
    CASE s = "YES" -> "yes"
      [] s = "NO" -> "no"
      [] s = "UNCLEAR" -> "unclear"
      [] OTHER -> s

Upper(s) ==
    CASE s = "yes" -> "YES"
      [] s = "no" -> "NO"
      [] s = "nothing" -> "NOTHING"
      [] s = "no_detection" -> "NO_DETECTION"
      [] s = "unclear" -> "UNCLEAR"
      [] OTHER -> s

\* float(condition_value): {} stands for ValueError
ParseFloat(s) ==
    CASE s = "0.5" -> Some(50)
      [] s = "0.9" -> Some(90)
      [] OTHER -> None

\* -------------------------------------------------------------- ORM schema
\* the mapped columns of models.DetectorAlertConfig and models.Query: reading
\* any other attribute of an instance raises AttributeError
DetectorAlertConfigColumns ==
    {"id", "detector_id", "enabled", "condition_type", "condition_value",
     "alert_emails", "alert_webhooks", "severity", "cooldown_minutes",
     "custom_message", "created_at", "updated_at", "detector"}

QueryColumns ==
    {"id", "detector_id", "created_at", "image_blob_path", "result_label",
     "confidence", "status", "local_inference", "escalated", "detections_json",
     "ground_truth", "is_correct", "reviewed_by", "reviewed_at", "detector",
     "escalation"}

\* the alert configurations a detector can carry (Init picks one)
AlertConfigs ==
    { [enabled |-> FALSE, condition_type |-> "LABEL_MATCH", condition_value |-> Some("YES"),
       cooldown_minutes |-> 5, alert_emails |-> FALSE],
      [enabled |-> TRUE, condition_type |-> "LABEL_MATCH", condition_value |-> Some("yes"),
       cooldown_minutes |-> 1, alert_emails |-> TRUE] }

\* ------------------------------------------------- components not running
\* the detectors table as seeded: the row of "d1", never soft-deleted, with the
\* last delete_detector or restore_detector call on it and how that call ended
DetectorTable == [d \in DetectorRows |-> [deleted_at |-> None, last_call |-> <<>>]]
\* no stream is configured, no assessment is made, no inspection worker and no
\* demo session is started
IngestOff == [stage |-> "off"]
HealthOff == [stage |-> "off"]
InspectionOff == [stage |-> "off"]
DemoOff == [stage |-> "off"]
DiskOff == [stage |-> "off"]

VARIABLES
    queries,       \* table queries: sequence of rows, the id is the index
    escalations,   \* table escalations: sequence of rows
    feedback,      \* table feedback: sequence of rows
    alerts,        \* table detector_alerts: sequence of rows
    alertConfig,   \* table detector_alert_configs: option, the row of "d1"
    blobs,         \* blob storage: set of blob paths
    sbQueue,       \* Service Bus fallback queue: sequence of messages sent
    req,           \* create_query calls: request id -> handler state
    demoTasks,     \* query ids with a running _process_inference_local thread
    nDemoFrames,   \* frames the demo session has captured
    nReviews,      \* reviewer calls made
    now,           \* wall clock, minutes
    wreq,          \* worker: /infer requests, request id -> handler state
    cache,         \* worker: ModelCache.cache, an insertion-ordered dict
    access_count,  \* worker: ModelCache.access_count, an insertion-ordered dict
    listenQueue,   \* worker: connections waiting in the server socket's backlog
    nextSession,   \* worker: identity of the next ort.InferenceSession created
    waited,        \* worker, history: <<request, key, session>> for each request that
                   \* was in the listen queue while the session of its key was created
    pipe,          \* worker: the detection list on its way through post-processing
    consumer,      \* worker: the input queue, the dead-letter queue and the results sent
    deletion,      \* delete_query calls, the ids of the deleted Query rows, and the
                   \* ids of the queries that have ImageAnnotation rows
    detectors,     \* table detectors: detector id -> row (the deleted_at column)
    ingest,        \* edge: one RTSPStreamWorker and the StreamIngestManager's registry
    health,        \* edge: a CameraHealthMonitor assessment in progress
    inspection,    \* camera inspection worker: the cameras, the runs and the cycle
    demo,          \* demo session: counters, frame buffer, rows and threads
    disk           \* worker: the model files under MODEL_CACHE_DIR, the blob they come
                   \* from, and the download_model_from_blob calls in progress

backendVars == <<queries, escalations, feedback, alerts, alertConfig, blobs,
                 sbQueue, req, demoTasks, nDemoFrames, nReviews, now>>

workerVars == <<wreq, cache, access_count, listenQueue, nextSession, waited>>

cloudVars == <<backendVars, workerVars, pipe, consumer, deletion, disk>>

auxVars == <<detectors, ingest, health, inspection, demo>>

vars == <<cloudVars, auxVars>>

\* names bound at module level in routers/queries.py (imports and assignments):
\* a reference to any other global name raises NameError
QueriesModuleGlobals ==
    {"uuid", "random", "datetime", "List", "APIRouter", "Depends", "File", "Form",
     "HTTPException", "UploadFile", "Session", "models", "schemas", "get_db",
     "get_current_user", "get_current_reviewer", "upload_blob", "generate_signed_url",
     "send_service_bus_message", "delete_blob", "send_alert_via_function",
     "trigger_detector_alert", "create_fallback_token", "get_settings", "router",
     "settings"}

\* ------------------------------------------------------- initial handler
IdleRequest ==
    [pc |-> "idle", detector_id |-> "d1", want_async |-> FALSE,
     confidence_threshold |-> 90, qid |-> 0, detections |-> None,
     enqueueFailed |-> FALSE, functionFailed |-> FALSE, directFailed |-> FALSE,
     triggerRaised |-> FALSE, emailFailed |-> FALSE, raised |-> "", response |-> None,
     events |-> <<>>]

\* the blob name of a submission is unique (timestamp and file name)
BlobPath(r) == <<"queries", r>>
DemoBlobPath(n) == <<"demo-sessions", n>>

\* models.Query(...) as create_query inserts it
NewQuery(detector_id, blob_path, local_inference) ==
    [detector_id |-> detector_id, image_blob_path |-> blob_path, status |-> "PENDING",
     local_inference |-> local_inference, escalated |-> FALSE, result_label |-> None,
     confidence |-> None, detections_json |-> None, ground_truth |-> None,
     is_correct |-> None]

\* max(detections, key=confidence): Python's max keeps the first maximum
TopIndex(detections) ==
    CHOOSE i \in 1..Len(detections) :
        /\ \A j \in 1..Len(detections) : detections[j].confidence <= detections[i].confidence
        /\ \A j \in 1..(i - 1) : detections[j].confidence < detections[i].confidence

\* a slip in the selection: the last detection instead of the top one
InferenceLabel_Last(detections) ==
    IF detections # <<>> THEN detections[Len(detections)].label ELSE "nothing"

\* create_query's label and confidence of a worker answer
InferenceLabel(detections) ==
    IF detections # <<>> THEN detections[TopIndex(detections)].label ELSE "nothing"

InferenceConfidence(detections) ==
    IF detections # <<>> THEN detections[TopIndex(detections)].confidence ELSE 100

\* a slip in the comparison: equality escalates too
NeedsEscalation_AtMost(confidence, confidence_threshold) == confidence <= confidence_threshold

\* "if confidence < confidence_threshold"
NeedsEscalation(confidence, confidence_threshold) == confidence < confidence_threshold

\* ------------------------------------------------ utils/detector_alerting.py
\* the base condition of should_trigger_alert: "true", "false", or "invalid"
\* when float(condition_value) raises ValueError
ConditionMet(config, result_label, confidence) ==
    CASE config.condition_type = "ALWAYS" -> "true"
      [] config.condition_type = "LABEL_MATCH" ->
            IF config.condition_value # None
                  /\ Upper(result_label) = Upper(The(config.condition_value))
            THEN "true" ELSE "false"
      [] config.condition_type = "CONFIDENCE_ABOVE" ->
            IF config.condition_value = None THEN "false"
            ELSE IF ParseFloat(The(config.condition_value)) = None THEN "invalid"
            ELSE IF confidence >= The(ParseFloat(The(config.condition_value)))
                 THEN "true" ELSE "false"
      [] config.condition_type = "CONFIDENCE_BELOW" ->
            IF config.condition_value = None THEN "false"
            ELSE IF ParseFloat(The(config.condition_value)) = None THEN "invalid"
            ELSE IF confidence < The(ParseFloat(The(config.condition_value)))
                 THEN "true" ELSE "false"
      [] OTHER -> "false"

\* check_consecutive_matches: the last required_count queries of the detector
\* (newest first) are compared through query.result, which is no column of
\* Query
CheckConsecutiveMatches(detector_id, result_label, required_count, rows) ==
    LET own == {i \in 1..Len(rows) : rows[i].detector_id = detector_id}
        recent == {i \in own : Cardinality({j \in own : j > i}) < required_count}
    IN  IF required_count <= 1 THEN "true"
        ELSE IF Cardinality(recent) < required_count THEN "false"
        ELSE IF "result" \notin QueryColumns THEN "raise"
        ELSE IF \A i \in recent : rows[i].result_label = Some(result_label) THEN "true"
        ELSE "false"

\* should_trigger_alert: "true", "false", or "raise" (an exception leaves it).
\* Once the base condition is met it reads config.consecutive_count, which is
\* no column of DetectorAlertConfig.
ShouldTriggerAlert(detector_id, config, result_label, confidence, rows) ==
    IF config = None \/ ~The(config).enabled THEN "false"
    ELSE IF ConditionMet(The(config), result_label, confidence) # "true" THEN "false"
    ELSE IF "consecutive_count" \notin DetectorAlertConfigColumns THEN "raise"
    ELSE CheckConsecutiveMatches(detector_id, result_label,
                                 The(config).consecutive_count, rows)

\* check_cooldown: TRUE when no alert of the detector is younger than the cooldown
CheckCooldown(detector_id, cooldown_minutes, alertRows, t) ==
    ~\E i \in 1..Len(alertRows) :
        /\ alertRows[i].detector_id = detector_id
        /\ alertRows[i].created_at > t - cooldown_minutes

\* trigger_detector_alert up to the insert: "none" (returns None), "raise"
\* (an exception leaves it) or "create" (the DetectorAlert row is inserted)
TriggerOutcome(detector_id, config, result_label, confidence, rows, alertRows, t) ==
    IF detector_id \notin DetectorRows THEN "none"
    ELSE IF config = None \/ ~The(config).enabled THEN "none"
    ELSE IF ShouldTriggerAlert(detector_id, config, result_label, confidence, rows) = "raise" THEN "raise"
    ELSE IF ShouldTriggerAlert(detector_id, config, result_label, confidence, rows) = "false" THEN "none"
    ELSE IF ~CheckCooldown(detector_id, The(config).cooldown_minutes, alertRows, t) THEN "none"
    ELSE IF "alert_phones" \notin DetectorAlertConfigColumns THEN "raise"
    ELSE "create"

\* the detector_alerts table after trigger_detector_alert; emailOk is what
\* send_alert_emails returns
AlertsAfterTrigger(detector_id, qid, config, result_label, confidence, rows, alertRows, t, emailOk) ==
    IF TriggerOutcome(detector_id, config, result_label, confidence, rows, alertRows, t) = "create"
    THEN Append(alertRows,
                [detector_id |-> detector_id, query_id |-> qid, created_at |-> t,
                 email_sent |-> (The(config).alert_emails /\ emailOk)])
    ELSE alertRows

\* ------------------------------------------------------ routers/queries.py
\* a slip in the order: the PENDING row is inserted before the upload is tried
QueriesAfterSubmit_InsertFirst(r, detector_id, uploadOk) ==
    IF detector_id \in DetectorRows
    THEN Append(queries, NewQuery(detector_id, BlobPath(r), FALSE))
    ELSE queries

\* the queries table after create_query's first part: the detector lookup
\* (404), then upload_blob (its exception leaves the handler), then the insert
\* of the PENDING row and the commit
QueriesAfterSubmit(r, detector_id, uploadOk) ==
    IF detector_id \in DetectorRows /\ uploadOk
    THEN Append(queries, NewQuery(detector_id, BlobPath(r), FALSE))
    ELSE queries

\* the row as create_query's commit leaves it: the UPDATE writes the columns
\* the handler assigned (escalated only on the low-confidence path) and keeps
\* what other sessions committed to the other columns meanwhile
ResultColumns(row, detections, confidence_threshold) ==
    LET esc == NeedsEscalation(InferenceConfidence(detections), confidence_threshold)
    IN  [row EXCEPT !.result_label = Some(InferenceLabel(detections)),
                    !.confidence = Some(InferenceConfidence(detections)),
                    !.status = IF esc THEN "ESCALATED" ELSE "DONE",
                    !.local_inference = TRUE,
                    !.detections_json = Some(detections),
                    !.escalated = IF esc THEN TRUE ELSE @]

\* the except block of the inference call: logger.error(...), q.status = "ERROR",
\* db.commit(), raise HTTPException(500, "Inference worker error: ..."); the
\* first statement needs the global name logger
InferenceFailureRaised ==
    IF "logger" \in QueriesModuleGlobals THEN "HTTPException: Inference worker error"
    ELSE "NameError"

StatusAfterInferenceFailure(status) ==
    IF "logger" \in QueriesModuleGlobals THEN "ERROR" ELSE status

\* a slip in the order: the trigger runs before db.commit()
TableSeenByTrigger_BeforeCommit(before, committed) == before

\* db.commit() comes before trigger_detector_alert: the alert engine's session
\* reads the table with the result committed
TableSeenByTrigger(before, committed) == committed

\* a slip: the trigger's exception is not caught
AfterTrigger_Propagates(outcome) == IF outcome = "raise" THEN "failed" ELSE "returned"

\* "try: trigger_detector_alert(...) except Exception: print(...)": the handler
\* returns q whatever the trigger did
AfterTrigger(outcome) == "returned"

\* the tail of create_query for handler state h of request r: db.commit(),
\* db.refresh(q), the guarded trigger_detector_alert, return q
CommitAndReturn(r, h) ==
    LET qid == h.qid
        dets == The(h.detections)
        esc == NeedsEscalation(InferenceConfidence(dets), h.confidence_threshold)
        committed == [queries EXCEPT ![qid] = ResultColumns(@, dets, h.confidence_threshold)]
        q == committed[qid]
        seen == TableSeenByTrigger(queries, committed)
        called == q.result_label # None /\ q.confidence # None
        outcome == IF called
                   THEN TriggerOutcome(h.detector_id, alertConfig, The(q.result_label),
                                       The(q.confidence), seen, alerts, now)
                   ELSE "skipped"
    IN  /\ queries' = committed
        /\ escalations' =
              IF esc
              THEN Append(escalations,
                          [query_id |-> qid, reason |-> "Low confidence", resolved |-> FALSE])
              ELSE escalations
        /\ \E emailOk \in (IF outcome = "create" THEN BOOLEAN ELSE {TRUE}) :
           /\ alerts' = IF called
                         THEN AlertsAfterTrigger(h.detector_id, qid, alertConfig,
                                                 The(q.result_label), The(q.confidence),
                                                 seen, alerts, now, emailOk)
                         ELSE alerts
           /\ req' = [req EXCEPT ![r] =
              [h EXCEPT !.pc = AfterTrigger(outcome),
                        !.triggerRaised = (outcome = "raise"),
                        !.emailFailed = ~emailOk,
                        !.raised = IF AfterTrigger(outcome) = "returned" THEN "" ELSE "AlertError",
                        !.response = Some(q),
                        !.events = @ \o (<<"commit">> \o
                                   (IF called
                                    THEN <<IF seen[qid].result_label # None
                                           THEN "alert_eval" ELSE "alert_eval_stale">>
                                    ELSE <<>>))]]

\* create_query up to its first suspension: detector lookup, upload, insert and
\* commit of the PENDING row; with want_async the message is sent ("except
\* Exception: pass" around send_service_bus_message) and the handler returns,
\* otherwise the worker is called and the handler awaits it
CreateQuerySubmit(r, detector_id, want_async, confidence_threshold, uploadOk, enqueueOk) ==
    /\ req[r].pc = "idle"
    /\ LET qid == Len(queries) + 1
           h0 == [req[r] EXCEPT !.detector_id = detector_id, !.want_async = want_async,
                                !.confidence_threshold = confidence_threshold]
       IN  /\ queries' = QueriesAfterSubmit(r, detector_id, uploadOk)
           /\ IF detector_id \notin DetectorRows
              THEN /\ req' = [req EXCEPT ![r] =
                         [h0 EXCEPT !.pc = "failed", !.raised = "HTTPException: Detector not found"]]
                   /\ UNCHANGED <<blobs, sbQueue>>
              ELSE IF ~uploadOk
              THEN /\ req' = [req EXCEPT ![r] =
                         [h0 EXCEPT !.pc = "failed", !.raised = "StorageError"]]
                   /\ UNCHANGED <<blobs, sbQueue>>
              ELSE IF want_async
              THEN /\ blobs' = blobs \cup {BlobPath(r)}
                   /\ sbQueue' = IF enqueueOk
                                 THEN Append(sbQueue, [query_id |-> qid, blob_path |-> BlobPath(r)])
                                 ELSE sbQueue
                   /\ req' = [req EXCEPT ![r] =
                         [h0 EXCEPT !.pc = "returned",
                                    !.qid = qid,
                                    !.enqueueFailed = ~enqueueOk,
                                    !.response = Some(NewQuery(detector_id, BlobPath(r), FALSE)),
                                    !.events = <<"upload", "insert">>]]
              ELSE /\ blobs' = blobs \cup {BlobPath(r)}
                   /\ req' = [req EXCEPT ![r] =
                         [h0 EXCEPT !.pc = "inferring", !.qid = qid,
                                    !.events = <<"upload", "insert", "infer_call">>]]
                   /\ UNCHANGED sbQueue
    /\ UNCHANGED <<escalations, feedback, alerts, alertConfig, demoTasks,
                   nDemoFrames, nReviews, now>>

\* InferenceService.run_inference raised (worker status, timeout, connection
\* error): the except block of create_query runs
CreateQueryInferenceFails(r) ==
    /\ req[r].pc = "inferring"
    /\ queries' = [queries EXCEPT ![req[r].qid].status = StatusAfterInferenceFailure(@)]
    /\ req' = [req EXCEPT ![r].pc = "failed", ![r].raised = InferenceFailureRaised,
                          ![r].events = Append(@, "infer_raise")]
    /\ UNCHANGED <<escalations, feedback, alerts, alertConfig, blobs, sbQueue,
                   demoTasks, nDemoFrames, nReviews, now>>

\* run_inference returned: the handler takes the top detection; on low
\* confidence it adds the Escalation, sends the fallback message (again
\* "except Exception: pass") and awaits
\* send_alert_via_function; otherwise it commits and returns
CreateQueryInferenceReturns(r, detections, enqueueOk) ==
    /\ req[r].pc = "inferring"
    /\ LET h == [req[r] EXCEPT !.detections = Some(detections),
                               !.events = Append(@, "infer_ret")]
       IN  IF NeedsEscalation(InferenceConfidence(detections), h.confidence_threshold)
           THEN /\ sbQueue' = IF enqueueOk
                              THEN Append(sbQueue, [query_id |-> h.qid,
                                                    blob_path |-> BlobPath(r)])
                              ELSE sbQueue
                /\ req' = [req EXCEPT ![r] =
                      [h EXCEPT !.pc = "alerting", !.enqueueFailed = ~enqueueOk]]
                /\ UNCHANGED <<queries, escalations, alerts>>
           ELSE /\ CommitAndReturn(r, h)
                /\ UNCHANGED sbQueue
    /\ UNCHANGED <<feedback, alertConfig, blobs, demoTasks, nDemoFrames, nReviews, now>>

\* send_alert_via_function finished or raised (then the direct email/SMS
\* fallback runs, its exception is passed over too); commit, trigger, return
CreateQueryAlertDispatched(r, functionOk, directOk) ==
    /\ req[r].pc = "alerting"
    /\ CommitAndReturn(r, [req[r] EXCEPT !.functionFailed = ~functionOk,
                                         !.directFailed = ~functionOk /\ ~directOk])
    /\ UNCHANGED <<feedback, alertConfig, blobs, sbQueue, demoTasks, nDemoFrames,
                   nReviews, now>>

\* a slip in submit_feedback: the escalations of the query are resolved too
SubmitFeedback_Resolves(q, label, confidence) ==
    /\ nReviews < MaxReviews
    /\ q \in 1..Len(queries)
    /\ feedback' = Append(feedback, [query_id |-> q, label |-> label])
    /\ queries' = [queries EXCEPT ![q] =
          [@ EXCEPT !.result_label = Some(label),
                    !.confidence = IF confidence # None THEN confidence ELSE @,
                    !.status = "DONE",
                    !.escalated = FALSE]]
    /\ escalations' = [i \in 1..Len(escalations) |->
                          IF escalations[i].query_id = q
                          THEN [escalations[i] EXCEPT !.resolved = TRUE]
                          ELSE escalations[i]]
    /\ nReviews' = nReviews + 1
    /\ UNCHANGED <<alerts, alertConfig, blobs, sbQueue, req, demoTasks,
                   nDemoFrames, now>>

\* submit_feedback: a Feedback row, the reviewer's label (and confidence when
\* given) on the query, status DONE, escalated False
SubmitFeedback(q, label, confidence) ==
    /\ nReviews < MaxReviews
    /\ q \in 1..Len(queries)
    /\ feedback' = Append(feedback, [query_id |-> q, label |-> label])
    /\ queries' = [queries EXCEPT ![q] =
          [@ EXCEPT !.result_label = Some(label),
                    !.confidence = IF confidence # None THEN confidence ELSE @,
                    !.status = "DONE",
                    !.escalated = FALSE]]
    /\ nReviews' = nReviews + 1
    /\ UNCHANGED <<escalations, alerts, alertConfig, blobs, sbQueue, req, demoTasks,
                   nDemoFrames, now>>

\* is_correct as update_query_ground_truth leaves it: computed only
\* "if query.result_label"
IsCorrectAfterGroundTruth(row, ground_truth) ==
    IF row.result_label # None /\ The(row.result_label) # ""
    THEN Some(Lower(The(row.result_label)) = Lower(ground_truth))
    ELSE row.is_correct

\* update_query_ground_truth
UpdateQueryGroundTruth(q, ground_truth) ==
    /\ nReviews < MaxReviews
    /\ q \in 1..Len(queries)
    /\ queries' = [queries EXCEPT ![q] =
          [@ EXCEPT !.ground_truth = Some(ground_truth),
                    !.is_correct = IsCorrectAfterGroundTruth(queries[q], ground_truth)]]
    /\ nReviews' = nReviews + 1
    /\ UNCHANGED <<escalations, feedback, alerts, alertConfig, blobs, sbQueue, req,
                   demoTasks, nDemoFrames, now>>

\* ------------------------------------------ services/demo_session_manager.py
\* on_frame_captured, detector mode: upload, a PENDING Query (with its
\* DemoDetectionResult) for the session's detector, an inference thread
DemoFrameCaptured(uploadOk) ==
    /\ nDemoFrames < MaxDemoFrames
    /\ nDemoFrames' = nDemoFrames + 1
    /\ IF uploadOk
       THEN /\ blobs' = blobs \cup {DemoBlobPath(nDemoFrames + 1)}
            /\ queries' = Append(queries, NewQuery("d1", DemoBlobPath(nDemoFrames + 1), TRUE))
            /\ demoTasks' = demoTasks \cup {Len(queries) + 1}
       ELSE UNCHANGED <<blobs, queries, demoTasks>>
    /\ UNCHANGED <<escalations, feedback, alerts, alertConfig, sbQueue, req, nReviews, now>>

\* _process_inference_local's label and confidence of a worker answer
DemoLabel(detections) ==
    IF detections # <<>> THEN detections[TopIndex(detections)].label ELSE "no_detection"

DemoConfidence(detections) ==
    IF detections # <<>> THEN detections[TopIndex(detections)].confidence ELSE 0

\* _process_inference_local, the worker answered 200 with a detections list
DemoInferenceDone(q, detections) ==
    /\ q \in demoTasks
    /\ demoTasks' = demoTasks \ {q}
    /\ queries' = [queries EXCEPT ![q] =
          [@ EXCEPT !.result_label = Some(DemoLabel(detections)),
                    !.confidence = Some(DemoConfidence(detections)),
                    !.status = "DONE"]]
    /\ UNCHANGED <<escalations, feedback, alerts, alertConfig, blobs, sbQueue, req,
                   nDemoFrames, nReviews, now>>

\* _process_inference_local, requests.RequestException (status, timeout,
\* connection): the query ends ERROR; any other exception (a body that is no
\* JSON object) is only logged by the outer handler
DemoInferenceFails(q, requestException) ==
    /\ q \in demoTasks
    /\ demoTasks' = demoTasks \ {q}
    /\ queries' = IF requestException
                  THEN [queries EXCEPT ![q].status = "ERROR"]
                  ELSE queries
    /\ UNCHANGED <<escalations, feedback, alerts, alertConfig, blobs, sbQueue, req,
                   nDemoFrames, nReviews, now>>

\* a minute passes
Tick ==
    /\ now < MaxTime
    /\ now' = now + 1
    /\ UNCHANGED <<queries, escalations, feedback, alerts, alertConfig, blobs, sbQueue,
                   req, demoTasks, nDemoFrames, nReviews>>

\* ------------------------------------------- routers/queries.py: delete_query
\* no delete_query call is made
DeletionOff == [calls |-> <<>>, gone |-> {}, annotated |-> {}]

\* the Query rows in the table: the rows inserted and not deleted
QueryIds == (1..Len(queries)) \ deletion.gone

\* the rows of a table that belong to other queries
RowsOfOthers(rows, q) ==
    LET Other(row) == row.query_id # q
    IN  SelectSeq(rows, Other)

\* create_annotation: an ImageAnnotation row for an existing query
CreateAnnotation(q) ==
    /\ q \in QueryIds
    /\ q \notin deletion.annotated
    /\ deletion' = [deletion EXCEPT !.annotated = @ \cup {q}]
    /\ UNCHANGED <<backendVars, workerVars, pipe, consumer, auxVars, disk>>

\* delete_query, first part: the lookup (404 when there is no row), then
\* delete_blob inside "try ... except Exception: print(...)"
DeleteQueryBlob(c, q, blobOk) ==
    /\ deletion.calls[c].pc = "idle"
    /\ IF q \notin QueryIds
       THEN /\ deletion' = [deletion EXCEPT !.calls[c] = [pc |-> "failed", qid |-> q]]
            /\ UNCHANGED blobs
       ELSE /\ deletion' = [deletion EXCEPT !.calls[c] = [pc |-> "rows", qid |-> q]]
            /\ blobs' = IF blobOk THEN blobs \ {queries[q].image_blob_path} ELSE blobs
    /\ UNCHANGED <<queries, escalations, feedback, alerts, alertConfig, sbQueue, req,
                   demoTasks, nDemoFrames, nReviews, now, workerVars, pipe, consumer, auxVars, disk>>

\* delete_query, second part: the Escalation, Feedback and ImageAnnotation rows
\* of the query and the Query row are deleted and committed; when the commit
\* raises, the transaction is rolled back and the handler ends with the error
DeleteQueryRows(c, commitOk) ==
    /\ deletion.calls[c].pc = "rows"
    /\ LET q == deletion.calls[c].qid
       IN  IF commitOk /\ q \in QueryIds
           THEN /\ escalations' = RowsOfOthers(escalations, q)
                /\ feedback' = RowsOfOthers(feedback, q)
                /\ deletion' = [deletion EXCEPT !.calls[c].pc = "returned",
                                                !.gone = @ \cup {q},
                                                !.annotated = @ \ {q}]
           ELSE /\ deletion' = [deletion EXCEPT !.calls[c].pc = "failed"]
                /\ UNCHANGED <<escalations, feedback>>
    /\ UNCHANGED <<queries, alerts, alertConfig, blobs, sbQueue, req, demoTasks,
                   nDemoFrames, nReviews, now, workerVars, pipe, consumer, auxVars, disk>>

\* ------------------------------------------- worker/detector_inference.py
WorkerRequests == 1..MaxWorkerRequests
WorkerDetectors == {"d1", "d2"}

\* a Python dict as the sequence of its items in insertion order
DictKeys(d) == {d[i].key : i \in 1..Len(d)}

DictGet(d, k) == d[CHOOSE i \in 1..Len(d) : d[i].key = k].value

\* d[k] = v: an existing key keeps its place
DictSet(d, k, v) ==
    IF k \in DictKeys(d)
    THEN [i \in 1..Len(d) |-> IF d[i].key = k THEN [key |-> k, value |-> v] ELSE d[i]]
    ELSE Append(d, [key |-> k, value |-> v])

\* del d[k]
DictDel(d, k) ==
    LET keep == {i \in 1..Len(d) : d[i].key # k}
        nth(n) == CHOOSE i \in keep : Cardinality({j \in keep : j < i}) = n - 1
    IN  [n \in 1..Cardinality(keep) |-> d[nth(n)]]

\* a slip in the victim: the oldest entry whatever its count
LruKey_Oldest(counts) == counts[1].key

\* a slip in put: the evicted key keeps its access count
CountsAfterPut_KeepEvicted(c, counts, key) ==
    IF key \in {counts[i].key : i \in 1..Len(counts)}
    THEN [i \in 1..Len(counts) |->
             IF counts[i].key = key THEN [key |-> key, value |-> 1] ELSE counts[i]]
    ELSE Append(counts, [key |-> key, value |-> 1])

\* min(self.access_count, key=self.access_count.get): the first key, in dict
\* order, with the smallest count
LruKey(counts) ==
    counts[CHOOSE i \in 1..Len(counts) :
              /\ \A j \in 1..Len(counts) : counts[i].value <= counts[j].value
              /\ \A j \in 1..(i - 1) : counts[j].value > counts[i].value].key

\* ModelCache.put: the two dicts after put(key, session)
CacheAfterPut(c, counts, key, session) ==
    IF Len(c) >= MaxModels /\ key \notin DictKeys(c)
    THEN DictSet(DictDel(c, LruKey(counts)), key, session)
    ELSE DictSet(c, key, session)

CountsAfterPut(c, counts, key) ==
    IF Len(c) >= MaxModels /\ key \notin DictKeys(c)
    THEN DictSet(DictDel(counts, LruKey(counts)), key, 1)
    ELSE DictSet(counts, key, 1)

\* the cache key of load_onnx_model: f"{detector_id}_{role}"
CacheKey(detector_id, role) == <<detector_id, role>>

NewWorkerRequest ==
    [pc |-> "new", detector_id |-> "d1", has_oodd |-> FALSE, primary |-> 0, oodd |-> 0]

\* the pcs at which the HTTP server thread is inside do_POST
InHandler == {"get_primary", "load_primary", "get_oodd", "load_oodd", "forward"}

\* _serve: "while True: httpd.handle_request()" on a plain HTTPServer in one
\* thread: the next connection is accepted when the previous request is done
ServerTakes(w) ==
    /\ \A v \in DOMAIN wreq : wreq[v].pc \notin InHandler
    /\ listenQueue # <<>> /\ Head(listenQueue) = w

\* a client posts /infer with a detector config; the connection waits in the
\* listen queue
WorkerRequestArrives(w, detector_id, has_oodd) ==
    /\ wreq[w].pc = "new"
    /\ wreq' = [wreq EXCEPT ![w] = [@ EXCEPT !.pc = "queued", !.detector_id = detector_id,
                                              !.has_oodd = has_oodd]]
    /\ listenQueue' = Append(listenQueue, w)
    /\ UNCHANGED <<cache, access_count, nextSession, waited>>

\* handle_request takes the connection; do_POST calls run_detector_inference,
\* which downloads the primary model (an exception ends the request with 500)
WorkerAccept(w, downloadOk) ==
    /\ wreq[w].pc = "queued"
    /\ ServerTakes(w)
    /\ wreq' = [wreq EXCEPT ![w].pc = IF downloadOk THEN "get_primary" ELSE "error"]
    /\ listenQueue' = Tail(listenQueue)
    /\ UNCHANGED <<cache, access_count, nextSession, waited>>

\* load_onnx_model, "cached = _model_cache.get(cache_key)": a hit counts the
\* access and returns the session, a miss goes on to create one
WorkerCacheGet(w, role, downloadOk) ==
    /\ wreq[w].pc = IF role = "primary" THEN "get_primary" ELSE "get_oodd"
    /\ LET key == CacheKey(wreq[w].detector_id, role)
           after == IF role = "primary" /\ wreq[w].has_oodd
                    THEN (IF downloadOk THEN "get_oodd" ELSE "forward")
                    ELSE "forward"
       IN  IF key \in DictKeys(cache)
           THEN /\ access_count' = DictSet(access_count, key, DictGet(access_count, key) + 1)
                /\ wreq' = [wreq EXCEPT ![w] =
                      IF role = "primary"
                      THEN [@ EXCEPT !.pc = after, !.primary = DictGet(cache, key)]
                      ELSE [@ EXCEPT !.pc = after, !.oodd = DictGet(cache, key)]]
           ELSE /\ wreq' = [wreq EXCEPT ![w].pc =
                      IF role = "primary" THEN "load_primary" ELSE "load_oodd"]
                /\ UNCHANGED access_count
    /\ UNCHANGED <<cache, listenQueue, nextSession, waited>>

\* load_onnx_model after a miss: ort.InferenceSession(...) is created and put
\* into the cache (when it raises, a primary load ends the request with 500 and
\* an OODD load is logged and skipped); after the primary model the OODD model
\* is downloaded if one is configured (an exception there is logged and the
\* request goes on without OODD)
WorkerCachePut(w, role, loadOk, downloadOk) ==
    /\ wreq[w].pc = IF role = "primary" THEN "load_primary" ELSE "load_oodd"
    /\ LET key == CacheKey(wreq[w].detector_id, role)
           after == IF role = "primary" /\ wreq[w].has_oodd
                    THEN (IF downloadOk THEN "get_oodd" ELSE "forward")
                    ELSE "forward"
       IN  IF loadOk
           THEN /\ cache' = CacheAfterPut(cache, access_count, key, nextSession)
                /\ access_count' = CountsAfterPut(cache, access_count, key)
                /\ nextSession' = nextSession + 1
                /\ wreq' = [wreq EXCEPT ![w] =
                      IF role = "primary"
                      THEN [@ EXCEPT !.pc = after, !.primary = nextSession]
                      ELSE [@ EXCEPT !.pc = after, !.oodd = nextSession]]
                /\ waited' = waited \cup
                      {<<v, key, nextSession>> : v \in {u \in DOMAIN wreq :
                           /\ wreq[u].pc = "queued"
                           /\ wreq[u].detector_id = wreq[w].detector_id
                           /\ role = "oodd" => wreq[u].has_oodd}}
           ELSE /\ wreq' = [wreq EXCEPT ![w].pc = IF role = "primary" THEN "error" ELSE "forward"]
                /\ UNCHANGED <<cache, access_count, nextSession, waited>>
    /\ UNCHANGED listenQueue

\* the forward passes and post-processing end; do_POST writes the response
WorkerForwardDone(w) ==
    /\ wreq[w].pc = "forward"
    /\ wreq' = [wreq EXCEPT ![w].pc = "done"]
    /\ UNCHANGED <<cache, access_count, listenQueue, nextSession, waited>>

\* ------------------------------------- worker/detector_inference.py: nms
\* no detection list is being post-processed
PipeOff == [stage |-> "off"]

\* boxes <<x1, y1, x2, y2>> on a small grid: two that overlap by a third, one
\* that covers the first, one apart from all, and one without area
Boxes == { <<0, 0, 2, 2>>, <<1, 0, 3, 2>>, <<0, 0, 2, 3>>, <<5, 5, 6, 6>>, <<1, 1, 1, 2>> }

\* detection confidences, thousandths
RawConfidences == {300, 800}

\* IoU thresholds, hundredths (0.45 is the default)
IouThresholds == {0, 45, 100}

Max2(a, b) == IF a >= b THEN a ELSE b
Min2(a, b) == IF a <= b THEN a ELSE b

\* iou(box1, box2) < iou_threshold, the threshold in hundredths: the quotient
\* intersection / union is compared by cross-multiplication
IouBelow(box1, box2, iou_threshold) ==
    LET xi_min == Max2(box1[1], box2[1])
        yi_min == Max2(box1[2], box2[2])
        xi_max == Min2(box1[3], box2[3])
        yi_max == Min2(box1[4], box2[4])
        intersection == (xi_max - xi_min) * (yi_max - yi_min)
        area1 == (box1[3] - box1[1]) * (box1[4] - box1[2])
        area2 == (box2[3] - box2[1]) * (box2[4] - box2[2])
        union == area1 + area2 - intersection
    IN  IF xi_max <= xi_min \/ yi_max <= yi_min THEN 0 < iou_threshold
        ELSE IF union > 0 THEN intersection * 100 < iou_threshold * union
        ELSE 0 < iou_threshold

\* sorted(detections, key=confidence, reverse=True): stable, equal confidences
\* keep their order
RECURSIVE SortedByConfidence(_)
SortedByConfidence(dets) ==
    IF dets = <<>> THEN <<>>
    ELSE LET i == CHOOSE i \in 1..Len(dets) :
                     /\ \A j \in 1..Len(dets) : dets[j].confidence <= dets[i].confidence
                     /\ \A j \in 1..(i - 1) : dets[j].confidence < dets[i].confidence
             rest == [k \in 1..(Len(dets) - 1) |-> IF k < i THEN dets[k] ELSE dets[k + 1]]
         IN  <<dets[i]>> \o SortedByConfidence(rest)

\* a slip in the loop: the detections are taken in the order given
NmsOf_Unsorted(dets, iou_threshold) ==
    LET RECURSIVE Keep(_)
        Keep(rest) ==
            IF rest = <<>> THEN <<>>
            ELSE LET Apart(d) == IouBelow(rest[1].bbox, d.bbox, iou_threshold)
                 IN  <<rest[1]>> \o Keep(SelectSeq(Tail(rest), Apart))
    IN  Keep(dets)

\* nms: the best remaining detection is kept and every remaining one whose
\* IoU with it is not below the threshold is dropped
NmsOf(dets, iou_threshold) ==
    LET RECURSIVE Keep(_)
        Keep(rest) ==
            IF rest = <<>> THEN <<>>
            ELSE LET Apart(d) == IouBelow(rest[1].bbox, d.bbox, iou_threshold)
                 IN  <<rest[1]>> \o Keep(SelectSeq(Tail(rest), Apart))
    IN  Keep(SortedByConfidence(dets))

\* the detection lists nms is given: up to MaxDets detections, each with its
\* place in the list as id
NmsInputs ==
    UNION { [1..n -> [label : {"fire"}, confidence : RawConfidences, bbox : Boxes]] :
            n \in 0..MaxDets }

\* one call of nms on the current list
NmsPass ==
    /\ pipe.stage = "nms"
    /\ pipe.passes < MaxNmsPasses
    /\ pipe' = [pipe EXCEPT !.dets = NmsOf(pipe.dets, pipe.iou_threshold),
                            !.passes = @ + 1]
    /\ UNCHANGED <<backendVars, workerVars, consumer, deletion, auxVars, disk>>

\* --------------- worker/detector_inference.py: run_detector_inference tail
\* run_oodd_inference's calibrated_threshold (its default; the caller passes
\* none), thousandths
OoddThreshold == 444

\* in_domain_score after the clamp to [0, 1], thousandths; None: the detector
\* has no OODD session
OoddScores == {None, Some(200), Some(443), Some(444), Some(1000)}

\* confidences in this part are in units of 1/2,000,000, so that a product
\* with a score (thousandths) times 0.5 is exact: 0.8 is 1,600,000
PostConfidences == {2000 * 300, 2000 * 800}

PostLabels == {"fire", "smoke"}

\* what postprocess_yolo returns: detections with oodd_adjusted False; id is
\* the place in that list
PostDetections ==
    UNION { {ds \in [1..n -> [id : 1..n, label : PostLabels, confidence : PostConfidences,
                              oodd_adjusted : {FALSE}]] : \A i \in 1..n : ds[i].id = i} :
            n \in 0..MaxPostDets }

\* detector_config: class_names, per_class_thresholds (label -> threshold) and
\* confidence_threshold (0.5 when absent), same units as the confidences
ClassNameLists == { {}, {"fire"} }

PerClassThresholds == { <<>>, [l \in {"fire"} |-> 2000 * 500] }

ConfidenceThresholds == {2000 * 500, 2000 * 900}

\* a slip in the comparison: a score equal to the threshold is out of domain
IsInDomain_Strict(in_domain_score) == in_domain_score > OoddThreshold

\* "is_in_domain = in_domain_score >= calibrated_threshold"
IsInDomain(in_domain_score) == in_domain_score >= OoddThreshold

\* confidence_adjustment, in units of 1/2000: the score itself in domain, half
\* of it otherwise
ConfidenceAdjustment(in_domain_score) ==
    IF IsInDomain(in_domain_score) THEN 2 * in_domain_score ELSE in_domain_score

\* "if oodd_result and not oodd_result['is_in_domain']": every detection's
\* confidence is multiplied by the adjustment and the detection is tagged
OoddAdjusted(dets, score) ==
    IF score # None /\ ~IsInDomain(The(score))
    THEN [i \in 1..Len(dets) |->
             [dets[i] EXCEPT !.confidence = (@ * ConfidenceAdjustment(The(score))) \div 2000,
                             !.oodd_adjusted = TRUE]]
    ELSE dets

\* the OODD adjustment of the detections postprocess_yolo returned
PipeOoddAdjust ==
    /\ pipe.stage = "post"
    /\ pipe' = [pipe EXCEPT !.stage = "adjusted", !.dets = OoddAdjusted(pipe.dets, pipe.score)]
    /\ UNCHANGED <<backendVars, workerVars, consumer, deletion, auxVars, disk>>

\* "if class_names: detections = [d for d in detections if d.label in class_names]"
PipeClassFilter ==
    /\ pipe.stage = "adjusted"
    /\ LET Named(d) == d.label \in pipe.class_names
       IN  pipe' = [pipe EXCEPT !.stage = "filtered",
                                !.dets = IF pipe.class_names # {}
                                         THEN SelectSeq(pipe.dets, Named) ELSE pipe.dets]
    /\ UNCHANGED <<backendVars, workerVars, consumer, deletion, auxVars, disk>>

\* "if per_class_thresholds:" a detection stays when its confidence is at
\* least its class's threshold, confidence_threshold for a class without one;
\* the list is then returned
PipePerClassThresholds ==
    /\ pipe.stage = "filtered"
    /\ LET threshold(d) == IF d.label \in DOMAIN pipe.per_class_thresholds
                           THEN pipe.per_class_thresholds[d.label]
                           ELSE pipe.confidence_threshold
           Passes(d) == d.confidence >= threshold(d)
       IN  pipe' = [pipe EXCEPT !.stage = "emitted",
                                !.dets = IF pipe.per_class_thresholds # <<>>
                                         THEN SelectSeq(pipe.dets, Passes) ELSE pipe.dets]
    /\ UNCHANGED <<backendVars, workerVars, consumer, deletion, auxVars, disk>>

\* ------------------------- worker/worker.py, worker/onnx_worker.py: main
\* no queue is being consumed
ConsumerOff == [queue |-> <<>>, dead |-> <<>>, out |-> <<>>, completed |-> {}]

\* what a Service Bus message can carry: a body parse_sb_message gets no
\* fields from, a document without blob_url, a document with both fields
MessageKinds == {"unparsable", "no_blob_url", "well_formed"}

\* the queues the consumer can start on
InputQueues ==
    UNION { {q \in [1..n -> [id : 1..n, kind : MessageKinds, delivery_count : {1},
                             failed_at : {"none"}]] : \A i \in 1..n : q[i].id = i} :
            n \in 1..MaxMessages }

\* the step of the try block that raises, for a message and the outcomes of
\* the calls: "parse" is the ValueError for missing fields, "none" is success
FailedStep(kind, fetchOk, inferOk, sendOk, completeOk) ==
    IF kind # "well_formed" THEN "parse"
    ELSE IF ~fetchOk THEN "fetch"
    ELSE IF ~inferOk THEN "infer"
    ELSE IF ~sendOk THEN "send"
    ELSE IF ~completeOk THEN "complete"
    ELSE "none"

\* how the message is settled: the try block ends in complete_message; the
\* single "except Exception" dead-letters, and abandons when that raises too
\* (when abandon_message raises as well the lock expires: redelivery again)
Settlement(failed_at, deadLetterOk) ==
    IF failed_at = "none" THEN "complete"
    ELSE IF deadLetterOk THEN "dead_letter"
    ELSE "abandon"

\* one turn of the receive loop: the message at the head of the queue is
\* parsed, its image fetched, inference run, the result sent and the message
\* settled; an abandoned message comes back with its delivery count raised,
\* and the queue itself dead-letters it after its last delivery
ConsumeMessage(fetchOk, inferOk, sendOk, completeOk, deadLetterOk) ==
    /\ consumer.queue # <<>>
    /\ LET msg == Head(consumer.queue)
           failed_at == FailedStep(msg.kind, fetchOk, inferOk, sendOk, completeOk)
           how == Settlement(failed_at, deadLetterOk)
           seen == [msg EXCEPT !.failed_at = failed_at]
       IN  consumer' =
              [queue |-> IF how = "abandon" /\ msg.delivery_count < MaxDeliveries
                         THEN Append(Tail(consumer.queue),
                                     [seen EXCEPT !.delivery_count = @ + 1])
                         ELSE Tail(consumer.queue),
               dead |-> IF how = "dead_letter" \/ (how = "abandon"
                                                   /\ msg.delivery_count >= MaxDeliveries)
                        THEN Append(consumer.dead, seen) ELSE consumer.dead,
               out |-> IF failed_at \in {"none", "complete"}
                       THEN Append(consumer.out, msg.id) ELSE consumer.out,
               completed |-> IF how = "complete" THEN consumer.completed \cup {msg.id}
                             ELSE consumer.completed]
    /\ UNCHANGED <<backendVars, workerVars, pipe, deletion, auxVars, disk>>

\* ------------------------------------------------------------ specification
InitBackend ==
    /\ queries = <<>>
    /\ escalations = <<>>
    /\ feedback = <<>>
    /\ alerts = <<>>
    /\ alertConfig \in {Some(c) : c \in AlertConfigs}
    /\ blobs = {}
    /\ sbQueue = <<>>
    /\ demoTasks = {}
    /\ nDemoFrames = 0
    /\ nReviews = 0
    /\ now = 0

InitWorker ==
    /\ wreq = [w \in WorkerRequests |-> NewWorkerRequest]
    /\ cache = <<>>
    /\ access_count = <<>>
    /\ listenQueue = <<>>
    /\ nextSession = 1
    /\ waited = {}

\* the query pipeline: one create_query call, the demo session and the reviewers
Init ==
    /\ InitBackend
    /\ req = [r \in Requests |-> IdleRequest]
    /\ InitWorker
    /\ detectors = DetectorTable
    /\ ingest = IngestOff
    /\ health = HealthOff
    /\ inspection = InspectionOff
    /\ demo = DemoOff
    /\ disk = DiskOff
    /\ deletion = DeletionOff
    /\ consumer = ConsumerOff
    /\ pipe = PipeOff

Next ==
    \/ \E r \in DOMAIN req, d \in DetectorIds, a \in BOOLEAN, t \in Thresholds,
          u \in BOOLEAN, e \in BOOLEAN :
          CreateQuerySubmit(r, d, a, t, u, e) /\ UNCHANGED <<workerVars, pipe, consumer, deletion, auxVars, disk>>
    \/ \E r \in DOMAIN req : CreateQueryInferenceFails(r) /\ UNCHANGED <<workerVars, pipe, consumer, deletion, auxVars, disk>>
    \/ \E r \in DOMAIN req, ds \in WorkerDetections, e \in BOOLEAN :
          CreateQueryInferenceReturns(r, ds, e) /\ UNCHANGED <<workerVars, pipe, consumer, deletion, auxVars, disk>>
    \/ \E r \in DOMAIN req, f \in BOOLEAN, d \in BOOLEAN :
          CreateQueryAlertDispatched(r, f, d) /\ UNCHANGED <<workerVars, pipe, consumer, deletion, auxVars, disk>>
    \/ \E q \in 1..Len(queries), l \in FeedbackLabels, c \in FeedbackConfidences :
          SubmitFeedback(q, l, c) /\ UNCHANGED <<workerVars, pipe, consumer, deletion, auxVars, disk>>
    \/ \E q \in 1..Len(queries), g \in GroundTruths :
          UpdateQueryGroundTruth(q, g) /\ UNCHANGED <<workerVars, pipe, consumer, deletion, auxVars, disk>>
    \/ \E u \in BOOLEAN : DemoFrameCaptured(u) /\ UNCHANGED <<workerVars, pipe, consumer, deletion, auxVars, disk>>
    \/ \E q \in demoTasks, ds \in WorkerDetections :
          DemoInferenceDone(q, ds) /\ UNCHANGED <<workerVars, pipe, consumer, deletion, auxVars, disk>>
    \/ \E q \in demoTasks, x \in BOOLEAN : DemoInferenceFails(q, x) /\ UNCHANGED <<workerVars, pipe, consumer, deletion, auxVars, disk>>

Spec == Init /\ [][Next]_vars

\* the alert scenario: synchronous queries on one detector, minutes apart
InitAlert ==
    /\ InitBackend
    /\ req = [r \in 1..MaxAlertCalls |-> IdleRequest]
    /\ InitWorker
    /\ detectors = DetectorTable
    /\ ingest = IngestOff
    /\ health = HealthOff
    /\ inspection = InspectionOff
    /\ demo = DemoOff
    /\ disk = DiskOff
    /\ deletion = DeletionOff
    /\ consumer = ConsumerOff
    /\ pipe = PipeOff

NextAlert ==
    \/ \E r \in DOMAIN req : CreateQuerySubmit(r, "d1", FALSE, 90, TRUE, TRUE)
                                /\ UNCHANGED <<workerVars, pipe, consumer, deletion, auxVars, disk>>
    \/ \E r \in DOMAIN req, ds \in WorkerDetections :
          CreateQueryInferenceReturns(r, ds, TRUE) /\ UNCHANGED <<workerVars, pipe, consumer, deletion, auxVars, disk>>
    \/ \E r \in DOMAIN req : CreateQueryAlertDispatched(r, TRUE, TRUE) /\ UNCHANGED <<workerVars, pipe, consumer, deletion, auxVars, disk>>
    \/ Tick /\ UNCHANGED <<workerVars, pipe, consumer, deletion, auxVars, disk>>

SpecAlert == InitAlert /\ [][NextAlert]_vars

\* the worker: /infer requests against the model cache
InitCache ==
    /\ InitBackend
    /\ req = [r \in Requests |-> IdleRequest]
    /\ InitWorker
    /\ detectors = DetectorTable
    /\ ingest = IngestOff
    /\ health = HealthOff
    /\ inspection = InspectionOff
    /\ demo = DemoOff
    /\ disk = DiskOff
    /\ deletion = DeletionOff
    /\ consumer = ConsumerOff
    /\ pipe = PipeOff

NextCache ==
    \/ \E w \in DOMAIN wreq, d \in WorkerDetectors, o \in BOOLEAN :
          WorkerRequestArrives(w, d, o) /\ UNCHANGED <<backendVars, pipe, consumer, deletion, auxVars, disk>>
    \/ \E w \in DOMAIN wreq, ok \in BOOLEAN : WorkerAccept(w, ok) /\ UNCHANGED <<backendVars, pipe, consumer, deletion, auxVars, disk>>
    \/ \E w \in DOMAIN wreq, role \in {"primary", "oodd"}, ok \in BOOLEAN :
          WorkerCacheGet(w, role, ok) /\ UNCHANGED <<backendVars, pipe, consumer, deletion, auxVars, disk>>
    \/ \E w \in DOMAIN wreq, role \in {"primary", "oodd"}, l \in BOOLEAN, ok \in BOOLEAN :
          WorkerCachePut(w, role, l, ok) /\ UNCHANGED <<backendVars, pipe, consumer, deletion, auxVars, disk>>
    \/ \E w \in DOMAIN wreq : WorkerForwardDone(w) /\ UNCHANGED <<backendVars, pipe, consumer, deletion, auxVars, disk>>

SpecCache == InitCache /\ [][NextCache]_vars

\* nms as a function: a list and a threshold are drawn, nms is applied and
\* applied again to its own output
InitNms ==
    /\ InitBackend
    /\ req = [r \in Requests |-> IdleRequest]
    /\ InitWorker
    /\ detectors = DetectorTable
    /\ ingest = IngestOff
    /\ health = HealthOff
    /\ inspection = InspectionOff
    /\ demo = DemoOff
    /\ disk = DiskOff
    /\ deletion = DeletionOff
    /\ consumer = ConsumerOff
    /\ \E ds \in NmsInputs, t \in IouThresholds :
          pipe = [stage |-> "nms", input |-> ds, dets |-> ds, iou_threshold |-> t, passes |-> 0]

NextNms == NmsPass

SpecNms == InitNms /\ [][NextNms]_vars

\* the tail of run_detector_inference: from the detections postprocess_yolo
\* returned to the list in the response
InitPipe ==
    /\ InitBackend
    /\ req = [r \in Requests |-> IdleRequest]
    /\ InitWorker
    /\ detectors = DetectorTable
    /\ ingest = IngestOff
    /\ health = HealthOff
    /\ inspection = InspectionOff
    /\ demo = DemoOff
    /\ disk = DiskOff
    /\ deletion = DeletionOff
    /\ consumer = ConsumerOff
    /\ \E ds \in PostDetections, sc \in OoddScores, cn \in ClassNameLists,
          pc \in PerClassThresholds, ct \in ConfidenceThresholds :
          pipe = [stage |-> "post", input |-> ds, dets |-> ds, score |-> sc,
                  class_names |-> cn, per_class_thresholds |-> pc,
                  confidence_threshold |-> ct]

NextPipe ==
    \/ PipeOoddAdjust
    \/ PipeClassFilter
    \/ PipePerClassThresholds

SpecPipe == InitPipe /\ [][NextPipe]_vars

\* the queue consumer: a queue of messages is drawn and consumed
InitConsumer ==
    /\ InitBackend
    /\ req = [r \in Requests |-> IdleRequest]
    /\ InitWorker
    /\ detectors = DetectorTable
    /\ ingest = IngestOff
    /\ health = HealthOff
    /\ inspection = InspectionOff
    /\ demo = DemoOff
    /\ disk = DiskOff
    /\ deletion = DeletionOff
    /\ pipe = PipeOff
    /\ \E q \in InputQueues : consumer = [ConsumerOff EXCEPT !.queue = q]

NextConsumer ==
    \E f \in BOOLEAN, i \in BOOLEAN, s \in BOOLEAN, c \in BOOLEAN, d \in BOOLEAN :
        ConsumeMessage(f, i, s, c, d)

SpecConsumer == InitConsumer /\ [][NextConsumer]_vars

\* deletion: synchronous queries are created, reviewed and annotated, and
\* delete_query is called on queries whose create_query call has ended
InitDelete ==
    /\ InitBackend
    /\ req = [r \in Requests |-> IdleRequest]
    /\ InitWorker
    /\ pipe = PipeOff
    /\ consumer = ConsumerOff
    /\ detectors = DetectorTable
    /\ ingest = IngestOff
    /\ health = HealthOff
    /\ inspection = InspectionOff
    /\ demo = DemoOff
    /\ disk = DiskOff
    /\ deletion = [DeletionOff EXCEPT
                      !.calls = [c \in 1..MaxDeleteCalls |-> [pc |-> "idle", qid |-> 0]]]

\* the queries no create_query call is still working on
SettledQueryIds ==
    {q \in 1..Len(queries) :
        \A r \in DOMAIN req : req[r].qid = q => req[r].pc \in {"returned", "failed"}}

NextDelete ==
    \/ \E r \in DOMAIN req, e \in BOOLEAN :
          CreateQuerySubmit(r, "d1", FALSE, 100, TRUE, e)
             /\ UNCHANGED <<workerVars, pipe, consumer, deletion, auxVars, disk>>
    \/ \E r \in DOMAIN req, ds \in WorkerDetections, e \in BOOLEAN :
          CreateQueryInferenceReturns(r, ds, e)
             /\ UNCHANGED <<workerVars, pipe, consumer, deletion, auxVars, disk>>
    \/ \E r \in DOMAIN req, f \in BOOLEAN, d \in BOOLEAN :
          CreateQueryAlertDispatched(r, f, d)
             /\ UNCHANGED <<workerVars, pipe, consumer, deletion, auxVars, disk>>
    \/ \E q \in QueryIds \cap SettledQueryIds, l \in FeedbackLabels :
          SubmitFeedback(q, l, None) /\ UNCHANGED <<workerVars, pipe, consumer, deletion, auxVars, disk>>
    \/ \E q \in SettledQueryIds : CreateAnnotation(q)
    \/ \E c \in DOMAIN deletion.calls, q \in SettledQueryIds, b \in BOOLEAN :
          DeleteQueryBlob(c, q, b)
    \/ \E c \in DOMAIN deletion.calls, ok \in BOOLEAN : DeleteQueryRows(c, ok)

SpecDelete == InitDelete /\ [][NextDelete]_vars

\* --------------------------------- routers/detectors.py: soft delete, restore
\* the mapped columns of models.Detector: reading any other attribute of an
\* instance raises AttributeError
DetectorColumns ==
    {"id", "name", "mode", "query_text", "threshold", "status", "created_at",
     "confidence_threshold", "escalation_type", "group_name",
     "detector_metadata_serialized", "mode_configuration", "patience_time", "query",
     "type", "public_id", "query_type", "labels", "org_id", "created_by", "site_code",
     "primary_model_blob_path", "oodd_model_blob_path", "model_blob_path", "queries",
     "config", "deployments"}

\* delete_detector: 404 without a row; "det.deleted_at is not None" is read
\* next (AttributeError when deleted_at is no column), 400 when it is set,
\* otherwise deleted_at = utcnow() and commit
DeleteDetector(d) ==
    /\ d \in DOMAIN detectors
    /\ detectors[d].last_call # <<"delete_detector", "AttributeError">>
    /\ IF "deleted_at" \notin DetectorColumns
       THEN detectors' = [detectors EXCEPT
                             ![d].last_call = <<"delete_detector", "AttributeError">>]
       ELSE IF detectors[d].deleted_at # None
       THEN detectors' = [detectors EXCEPT
                             ![d].last_call = <<"delete_detector", "HTTPException">>]
       ELSE detectors' = [detectors EXCEPT
                             ![d].deleted_at = Some(now),
                             ![d].last_call = <<"delete_detector", "returned">>]
    /\ UNCHANGED <<cloudVars, ingest, health, inspection, demo>>

\* restore_detector: 404 without a row; "det.deleted_at is None" is read next,
\* 400 when it is None, otherwise deleted_at = None and commit
RestoreDetector(d) ==
    /\ d \in DOMAIN detectors
    /\ detectors[d].last_call # <<"restore_detector", "AttributeError">>
    /\ IF "deleted_at" \notin DetectorColumns
       THEN detectors' = [detectors EXCEPT
                             ![d].last_call = <<"restore_detector", "AttributeError">>]
       ELSE IF detectors[d].deleted_at = None
       THEN detectors' = [detectors EXCEPT
                             ![d].last_call = <<"restore_detector", "HTTPException">>]
       ELSE detectors' = [detectors EXCEPT
                             ![d].deleted_at = None,
                             ![d].last_call = <<"restore_detector", "returned">>]
    /\ UNCHANGED <<cloudVars, ingest, health, inspection, demo>>

\* create_query calls while an administrator soft-deletes and restores "d1"
InitDetector ==
    /\ InitBackend
    /\ req = [r \in Requests |-> IdleRequest]
    /\ InitWorker
    /\ pipe = PipeOff
    /\ consumer = ConsumerOff
    /\ deletion = DeletionOff
    /\ detectors = DetectorTable
    /\ ingest = IngestOff
    /\ health = HealthOff
    /\ inspection = InspectionOff
    /\ demo = DemoOff
    /\ disk = DiskOff

NextDetector ==
    \/ \E r \in DOMAIN req, d \in DetectorIds, a \in BOOLEAN, u \in BOOLEAN, e \in BOOLEAN :
          CreateQuerySubmit(r, d, a, 90, u, e)
             /\ UNCHANGED <<workerVars, pipe, consumer, deletion, auxVars, disk>>
    \/ \E r \in DOMAIN req : CreateQueryInferenceFails(r)
                                /\ UNCHANGED <<workerVars, pipe, consumer, deletion, auxVars, disk>>
    \/ \E r \in DOMAIN req, ds \in WorkerDetections, e \in BOOLEAN :
          CreateQueryInferenceReturns(r, ds, e)
             /\ UNCHANGED <<workerVars, pipe, consumer, deletion, auxVars, disk>>
    \/ \E r \in DOMAIN req, f \in BOOLEAN, dr \in BOOLEAN :
          CreateQueryAlertDispatched(r, f, dr)
             /\ UNCHANGED <<workerVars, pipe, consumer, deletion, auxVars, disk>>
    \/ Tick /\ UNCHANGED <<workerVars, pipe, consumer, deletion, auxVars, disk>>
    \/ \E d \in DetectorRows : DeleteDetector(d)
    \/ \E d \in DetectorRows : RestoreDetector(d)

SpecDetector == InitDetector /\ [][NextDetector]_vars

\* ------------------------------------ edge: streaming/rtsp_ingest.py, one loop
\* Time is counted in whole seconds. A sleep is a countdown, and the time since
\* the last _submit_frame call and since the last health check are counters
\* that stop at TimerCap (every interval compared with them is at most TimerCap).
Streams == 1..MaxStreams
FrameStatuses == {"healthy", "warning", "critical"}
\* StreamConfig values: sampling_interval_seconds, reconnect_delay_seconds,
\* camera_health.enabled / health_check_interval_seconds / skip_unhealthy_frames,
\* and whether the detector is configured for edge inference
StreamConfigs ==
    [sampling_interval_seconds : {1, 2},
     reconnect_delay_seconds : {1, 2},
     health_enabled : BOOLEAN,
     health_check_interval_seconds : {0, 2},
     skip_unhealthy_frames : BOOLEAN,
     configured : BOOLEAN]

Sooner(t) == IF t > 0 THEN t - 1 ELSE 0
Later(t) == IF t < TimerCap THEN t + 1 ELSE TimerCap

\* RTSPStreamWorker.__init__, with the task not yet scheduled
NewStreamWorker ==
    [pc |-> "created", stop_event |-> FALSE, capture |-> FALSE, frame |-> None,
     sleep_left |-> 0,
     since_check |-> TimerCap,        \* _last_health_check_time = 0.0
     last_health_result |-> None,
     since_submit |-> None,           \* no _submit_frame call yet
     last_gap |-> None,               \* history: time between the last two calls
     submitted |-> None,              \* history: status of the frame last submitted
     stop_observed |-> FALSE]         \* history: the loop head saw the stop event

IngestStep(s, w) ==
    /\ ingest.stage = "on"
    /\ ingest' = [ingest EXCEPT !.workers[s] = w]
    /\ UNCHANGED <<cloudVars, detectors, health, inspection, demo>>

Backoff(w) ==
    [w EXCEPT !.pc = "backoff", !.sleep_left = ingest.config.reconnect_delay_seconds,
              !.frame = None]

SamplingSleep(w) ==
    [w EXCEPT !.pc = "sampling_sleep",
              !.sleep_left = ingest.config.sampling_interval_seconds, !.frame = None]

\* run, before the loop: the detector must be configured for edge inference
WorkerRun(s) ==
    /\ ingest.stage = "on"
    /\ s \in ingest.tasks
    /\ ingest.workers[s].pc = "created"
    /\ IngestStep(s, [ingest.workers[s] EXCEPT
                         !.pc = IF ingest.config.configured THEN "head" ELSE "returned"])

AfterLoop_KeepCapture(w) == [w EXCEPT !.pc = "returned", !.stop_observed = TRUE]

\* after the loop: _release_capture, and run returns
AfterLoop(w) == [w EXCEPT !.pc = "returned", !.stop_observed = TRUE, !.capture = FALSE]

\* "while not self._stop_event.is_set()"
WorkerLoopHead(s) ==
    /\ ingest.stage = "on"
    /\ ingest.workers[s].pc = "head"
    /\ IngestStep(s, IF ingest.workers[s].stop_event
                     THEN AfterLoop(ingest.workers[s])
                     ELSE [ingest.workers[s] EXCEPT !.pc = "open"])

\* _ensure_capture: a capture that is held and still open is kept; otherwise it
\* is released and a new one opened, which can fail
WorkerEnsureCapture(s, stillOpen, openOk) ==
    /\ ingest.stage = "on"
    /\ ingest.workers[s].pc = "open"
    /\ LET w == ingest.workers[s]
       IN  IngestStep(s, IF w.capture /\ stillOpen THEN [w EXCEPT !.pc = "read"]
                         ELSE IF openOk THEN [w EXCEPT !.pc = "read", !.capture = TRUE]
                         ELSE Backoff([w EXCEPT !.capture = FALSE]))

\* _read_frame: an empty frame releases the capture and returns None; a frame
\* is encoded, and a failed encoding raises RuntimeError into run's handler
WorkerReadFrame(s, outcome, status) ==
    /\ ingest.stage = "on"
    /\ ingest.workers[s].pc = "read"
    /\ LET w == ingest.workers[s]
       IN  IngestStep(s,
              CASE outcome = "empty" -> Backoff([w EXCEPT !.capture = FALSE])
                [] outcome = "encode_error" -> Backoff(w)
                [] OTHER -> [w EXCEPT !.frame = Some(status),
                                      !.pc = IF ingest.config.health_enabled
                                             THEN "gate" ELSE "submit"])

\* _assess_frame_health: the frame is assessed when the check interval is 0,
\* when the interval has elapsed since the last check, or when no result is
\* cached; otherwise the cached result stands for the frame
ShouldRunCheck(w) ==
    \/ ingest.config.health_check_interval_seconds = 0
    \/ w.since_check >= ingest.config.health_check_interval_seconds

HealthResultFor(w) ==
    IF ShouldRunCheck(w) \/ w.last_health_result = None
    THEN The(w.frame)
    ELSE The(w.last_health_result)

ShouldSubmit(w) ==
    ~(ingest.config.skip_unhealthy_frames /\ HealthResultFor(w) = "critical")

WorkerAssessFrameHealth(s, assessOk) ==
    /\ ingest.stage = "on"
    /\ ingest.workers[s].pc = "gate"
    /\ LET w == ingest.workers[s]
           assessed == ShouldRunCheck(w) \/ w.last_health_result = None
           w1 == IF assessed
                 THEN [w EXCEPT !.since_check = 0, !.last_health_result = w.frame]
                 ELSE w
       IN  IngestStep(s, IF assessed /\ ~assessOk THEN Backoff(w)
                         ELSE IF ShouldSubmit(w) THEN [w1 EXCEPT !.pc = "submit"]
                         ELSE SamplingSleep(w1))

\* _submit_frame and what run does after it: the sampling sleep when it
\* returns (the frame submitted, or dropped because the inference service is
\* not ready), the except branch when it raises
WorkerSubmitFrame(s, outcome) ==
    /\ ingest.stage = "on"
    /\ ingest.workers[s].pc = "submit"
    /\ LET w == ingest.workers[s]
           w1 == [w EXCEPT !.last_gap = w.since_submit, !.since_submit = Some(0),
                           !.submitted = IF outcome = "not_ready" THEN @ ELSE w.frame]
       IN  IngestStep(s, IF outcome = "raised" THEN Backoff(w1) ELSE SamplingSleep(w1))

\* asyncio.sleep returns once its delay has passed; the loop tests the stop
\* event next
WorkerWakes(s) ==
    /\ ingest.stage = "on"
    /\ ingest.workers[s].pc \in {"backoff", "sampling_sleep"}
    /\ ingest.workers[s].sleep_left = 0
    /\ IngestStep(s, [ingest.workers[s] EXCEPT !.pc = "head"])

\* one second passes
IngestTick ==
    /\ ingest.stage = "on"
    /\ \E s \in Streams : ingest.workers[s].pc \notin {"created", "returned"}
    /\ ingest' = [ingest EXCEPT !.workers =
          [s \in Streams |->
              [ingest.workers[s] EXCEPT
                  !.sleep_left = Sooner(@),
                  !.since_check = Later(@),
                  !.since_submit = IF @ = None THEN None ELSE Some(Later(The(@)))]]]
    /\ UNCHANGED <<cloudVars, detectors, health, inspection, demo>>

\* StreamIngestManager.start: a worker and a task per configured stream
ManagerStart ==
    /\ ingest.stage = "on"
    /\ ingest.manager = "idle"
    /\ ingest' = [ingest EXCEPT !.manager = "started", !.tasks = Streams,
                                !.registered = Streams]
    /\ UNCHANGED <<cloudVars, detectors, health, inspection, demo>>

\* StreamIngestManager.stop up to the await: without tasks it returns, otherwise
\* every worker's stop event is set
ManagerStop ==
    /\ ingest.stage = "on"
    /\ ingest.manager \in {"idle", "started"}
    /\ ingest' = IF ingest.tasks = {}
                 THEN [ingest EXCEPT !.manager = "stopped"]
                 ELSE [ingest EXCEPT
                          !.manager = "stopping",
                          !.workers = [s \in Streams |->
                              [ingest.workers[s] EXCEPT
                                  !.stop_event = IF s \in ingest.registered THEN TRUE ELSE @]]]
    /\ UNCHANGED <<cloudVars, detectors, health, inspection, demo>>

\* asyncio.gather(*tasks) returns when every task has finished; both
\* registries are cleared
ManagerStopReturns ==
    /\ ingest.stage = "on"
    /\ ingest.manager = "stopping"
    /\ \A s \in ingest.tasks : ingest.workers[s].pc = "returned"
    /\ ingest' = [ingest EXCEPT !.manager = "stopped", !.tasks = {}, !.registered = {}]
    /\ UNCHANGED <<cloudVars, detectors, health, inspection, demo>>

InitIngest ==
    /\ InitBackend
    /\ req = [r \in Requests |-> IdleRequest]
    /\ InitWorker
    /\ pipe = PipeOff
    /\ consumer = ConsumerOff
    /\ deletion = DeletionOff
    /\ detectors = DetectorTable
    /\ \E c \in StreamConfigs :
          ingest = [stage |-> "on", config |-> c, manager |-> "idle", tasks |-> {},
                    registered |-> {}, workers |-> [s \in Streams |-> NewStreamWorker]]
    /\ health = HealthOff
    /\ inspection = InspectionOff
    /\ demo = DemoOff
    /\ disk = DiskOff

WorkerNext(s) ==
    \/ WorkerRun(s)
    \/ WorkerLoopHead(s)
    \/ \E stillOpen \in BOOLEAN, openOk \in BOOLEAN : WorkerEnsureCapture(s, stillOpen, openOk)
    \/ \E outcome \in {"frame", "empty", "encode_error"}, status \in FrameStatuses :
          WorkerReadFrame(s, outcome, status)
    \/ \E assessOk \in BOOLEAN : WorkerAssessFrameHealth(s, assessOk)
    \/ \E outcome \in {"done", "not_ready", "raised"} : WorkerSubmitFrame(s, outcome)
    \/ WorkerWakes(s)

NextIngest ==
    \/ \E s \in Streams : WorkerNext(s)
    \/ IngestTick
    \/ ManagerStart
    \/ ManagerStop
    \/ ManagerStopReturns

SpecIngest == InitIngest /\ [][NextIngest]_vars

\* the event loop runs every task that is ready, blocking calls made through
\* asyncio.to_thread return, and time passes
SpecIngestLive ==
    /\ SpecIngest
    /\ WF_vars(IngestTick)
    /\ WF_vars(ManagerStopReturns)
    /\ \A s \in Streams : WF_vars(WorkerNext(s))

\* ----------------------------------------- edge: camera_health/monitor.py
\* CameraHealthMonitor() with the default thresholds; the ratios are percents
MonitorThresholds ==
    [blur_threshold |-> 100, brightness_low |-> 40, brightness_high |-> 220,
     contrast_low |-> 30, overexposed_ratio |-> 10, underexposed_ratio |-> 30,
     obstruction_threshold |-> 30, movement_threshold |-> 50,
     focus_change_threshold |-> 30, frame_diff_threshold |-> 40]

\* A frame is given by the statistics of its grey image that the monitor
\* computes: the Laplacian variance, the mean, the standard deviation, and the
\* percent of pixels above 250, below 20 and below 30.
\* The "obstructed" image of scripts/test_camera_health.py (left half black,
\* right half uniform noise in 80..179):
ObstructedTestFrame ==
    [blur_score |-> 4000, brightness |-> 65, contrast |-> 66, overexposed_pct |-> 0,
     underexposed_pct |-> 50, dark_pct |-> 50]

\* frames on both sides of every threshold; a pixel below 20 is below 30, and
\* the mean is bounded by the share of dark and of bright pixels
Frames ==
    {f \in [blur_score : {50, 4000}, brightness : {30, 65, 230},
            contrast : {20, 66}, overexposed_pct : {0, 20},
            underexposed_pct : {0, 50}, dark_pct : {0, 50}] :
        /\ f.dark_pct >= f.underexposed_pct
        /\ f.underexposed_pct = 50 => f.brightness # 230
        /\ f.overexposed_pct = 20 => f.brightness # 30}

\* what the comparison with the reference frame measures: the ORB match
\* distance and the mean absolute difference (percent of 255)
MovementScores == {0, 100}
FrameDiffScores == {0, 50}

\* _assess_quality
AssessQuality(f) ==
    [is_blurry |-> f.blur_score < MonitorThresholds.blur_threshold,
     is_too_dark |-> f.brightness < MonitorThresholds.brightness_low,
     is_too_bright |-> f.brightness > MonitorThresholds.brightness_high,
     is_low_contrast |-> f.contrast < MonitorThresholds.contrast_low,
     is_overexposed |-> f.overexposed_pct > MonitorThresholds.overexposed_ratio,
     is_underexposed |-> f.underexposed_pct > MonitorThresholds.underexposed_ratio]

\* "if flag: issues.append(issue)" for a list of <<flag, issue>> in order
RECURSIVE AppendIssues(_)
AppendIssues(flagged) ==
    IF flagged = <<>> THEN <<>>
    ELSE (IF flagged[1][1] THEN <<flagged[1][2]>> ELSE <<>>) \o AppendIssues(Tail(flagged))

\* _identify_quality_issues
IdentifyQualityIssues(m) ==
    AppendIssues(<< <<m.is_blurry, "blur">>, <<m.is_too_dark, "low_brightness">>,
                    <<m.is_too_bright, "high_brightness">>,
                    <<m.is_low_contrast, "low_contrast">>,
                    <<m.is_overexposed, "overexposure">>,
                    <<m.is_underexposed, "underexposure">> >>)

Abs(x) == IF x < 0 THEN 0 - x ELSE x

\* _assess_tampering against the reference; the focus change ratio
\* |blur - reference| / reference > 0.3 is compared without division
AssessTampering(f, reference_blur_score, movement_score, frame_diff_score) ==
    [is_obstructed |-> f.dark_pct > MonitorThresholds.obstruction_threshold,
     has_moved |-> movement_score > MonitorThresholds.movement_threshold,
     focus_changed |->
         /\ reference_blur_score > 0
         /\ 100 * Abs(f.blur_score - reference_blur_score)
               > MonitorThresholds.focus_change_threshold * reference_blur_score,
     significant_change |-> frame_diff_score > MonitorThresholds.frame_diff_threshold]

\* _identify_tampering_issues
IdentifyTamperingIssues(m) ==
    AppendIssues(<< <<m.is_obstructed, "obstruction">>, <<m.has_moved, "camera_moved">>,
                    <<m.focus_changed, "focus_changed">>,
                    <<m.significant_change, "significant_change">> >>)

\* quality_deductions.get(issue, 5.0) and tampering_deductions.get(issue, 10.0)
QualityDeduction(issue) ==
    CASE issue = "blur" -> 20
      [] issue = "low_brightness" -> 15
      [] issue = "high_brightness" -> 15
      [] issue = "low_contrast" -> 10
      [] issue = "overexposure" -> 10
      [] issue = "underexposure" -> 10
      [] OTHER -> 5

TamperingDeduction(issue) ==
    CASE issue = "obstruction" -> 50
      [] issue = "camera_moved" -> 30
      [] issue = "focus_changed" -> 20
      [] issue = "significant_change" -> 15
      [] OTHER -> 10

\* "for issue in quality_issues: score -= ..." and the same for tampering
RECURSIVE AfterQualityDeductions(_, _)
AfterQualityDeductions(score, issues) ==
    IF issues = <<>> THEN score
    ELSE AfterQualityDeductions(score - QualityDeduction(Head(issues)), Tail(issues))

RECURSIVE AfterTamperingDeductions(_, _)
AfterTamperingDeductions(score, issues) ==
    IF issues = <<>> THEN score
    ELSE AfterTamperingDeductions(score - TamperingDeduction(Head(issues)), Tail(issues))

SeqRange(q) == {q[i] : i \in DOMAIN q}

StatusOf_WarningAbove50(score, tampering_issues) ==
    IF "obstruction" \in SeqRange(tampering_issues) THEN "critical"
    ELSE IF score >= 80 THEN "healthy"
    ELSE IF score > 50 THEN "warning"
    ELSE "critical"

\* _calculate_health_status: the status from the clamped score
StatusOf(score, tampering_issues) ==
    IF "obstruction" \in SeqRange(tampering_issues) THEN "critical"
    ELSE IF score >= 80 THEN "healthy"
    ELSE IF score >= 50 THEN "warning"
    ELSE "critical"

\* _calculate_health_status
CalculateHealthStatus(quality_issues, tampering_issues) ==
    LET raw == AfterTamperingDeductions(AfterQualityDeductions(100, quality_issues),
                                        tampering_issues)
        score == Max2(0, Min2(100, raw))
    IN  [status |-> StatusOf(score, tampering_issues), overall_score |-> score]

\* assess_health: quality always; tampering only with check_tampering and a
\* reference frame, and the first such call sets the reference instead
AssessHealth(f, check_tampering, movement_score, frame_diff_score) ==
    /\ health.stage = "on"
    /\ LET quality_issues == IdentifyQualityIssues(AssessQuality(f))
           compared == check_tampering /\ health.reference_blur_score # None
           tampering_issues ==
               IF compared
               THEN IdentifyTamperingIssues(
                        AssessTampering(f, The(health.reference_blur_score),
                                        movement_score, frame_diff_score))
               ELSE <<>>
           r == CalculateHealthStatus(quality_issues, tampering_issues)
       IN  health' = [health EXCEPT
              !.reference_blur_score =
                  IF check_tampering /\ @ = None THEN Some(f.blur_score) ELSE @,
              !.frame = Some(f),
              !.check_tampering = check_tampering,
              !.result = Some([status |-> r.status, overall_score |-> r.overall_score,
                               quality_issues |-> quality_issues,
                               tampering_issues |-> tampering_issues,
                               compared |-> compared])]
    /\ UNCHANGED <<cloudVars, detectors, ingest, inspection, demo>>

\* reset_reference: with a frame it becomes the reference, without it the
\* reference is cleared
ResetReference(f) ==
    /\ health.stage = "on"
    /\ health' = [health EXCEPT
          !.reference_blur_score = IF f = None THEN None ELSE Some(The(f).blur_score)]
    /\ UNCHANGED <<cloudVars, detectors, ingest, inspection, demo>>

InitHealth ==
    /\ InitBackend
    /\ req = [r \in Requests |-> IdleRequest]
    /\ InitWorker
    /\ pipe = PipeOff
    /\ consumer = ConsumerOff
    /\ deletion = DeletionOff
    /\ detectors = DetectorTable
    /\ ingest = IngestOff
    /\ health = [stage |-> "on", reference_blur_score |-> None, frame |-> None,
                 check_tampering |-> FALSE, result |-> None]
    /\ inspection = InspectionOff
    /\ demo = DemoOff
    /\ disk = DiskOff

NextHealth ==
    \/ \E f \in Frames, c \in BOOLEAN, m \in MovementScores, d \in FrameDiffScores :
          AssessHealth(f, c, m, d)
    \/ \E f \in {None} \cup {Some(g) : g \in Frames} : ResetReference(f)

SpecHealth == InitHealth /\ [][NextHealth]_vars

\* ------------------------- worker/camera_inspection_worker.py: one worker
\* inspect_camera's health_data["status"], or an exception out of the
\* try block of the loop body
InspectionOutcomes == {"connected", "degraded", "offline", "raised"}

\* no cycle is running
IdleCycle ==
    [pc |-> "idle", run_id |-> None, cameras |-> 0, next |-> 1, healthy_count |-> 0,
     warning_count |-> 0, failed_count |-> 0]

\* create_inspection_run: a row with status "running"
NewInspectionRun ==
    [status |-> "running", total_cameras |-> None, cameras_inspected |-> None,
     cameras_healthy |-> None, cameras_warning |-> None, cameras_failed |-> None]

\* run_inspection_cycle up to the loop: get_cameras (an empty list when the
\* call fails) and, with cameras, POST /camera-inspection/runs. The POST can
\* fail before the row is written ("failed") or after it ("lost": the row is
\* committed and the response does not arrive); both leave run_id None
CycleStart(n, post) ==
    /\ inspection.stage = "on"
    /\ inspection.cycle.pc \in {"idle", "returned"}
    /\ inspection.cycles < MaxCycles
    /\ LET created == n > 0 /\ post \in {"ok", "lost"}
           runs1 == IF created THEN Append(inspection.runs, NewInspectionRun)
                    ELSE inspection.runs
       IN  inspection' = [inspection EXCEPT
              !.cycles = @ + 1,
              !.runs = runs1,
              !.cycle = IF n = 0 THEN [IdleCycle EXCEPT !.pc = "returned"]
                        ELSE [IdleCycle EXCEPT
                                 !.pc = "inspecting", !.cameras = n,
                                 !.run_id = IF post = "ok" THEN Some(Len(runs1)) ELSE None]]
    /\ UNCHANGED <<cloudVars, detectors, ingest, health, demo>>

\* the body of "for camera in cameras": one camera is inspected and counted;
\* an exception counts it as failed
InspectCamera(outcome) ==
    /\ inspection.stage = "on"
    /\ inspection.cycle.pc = "inspecting"
    /\ LET c == inspection.cycle
           c1 == CASE outcome = "connected" -> [c EXCEPT !.healthy_count = @ + 1]
                   [] outcome = "degraded" -> [c EXCEPT !.warning_count = @ + 1]
                   [] OTHER -> [c EXCEPT !.failed_count = @ + 1]
       IN  inspection' = [inspection EXCEPT
              !.cycle = [c1 EXCEPT !.next = @ + 1,
                                   !.pc = IF c.next = c.cameras THEN "updating"
                                          ELSE "inspecting"]]
    /\ UNCHANGED <<cloudVars, detectors, ingest, health, demo>>

\* update_inspection_run with the parameters the worker sends
UpdatedRun(run, c) ==
    [run EXCEPT !.total_cameras = Some(c.cameras),
                !.cameras_inspected = Some(c.cameras),
                !.cameras_healthy = Some(c.healthy_count),
                !.cameras_warning = Some(c.warning_count),
                !.cameras_failed = Some(c.failed_count),
                !.status = "completed"]

\* the end of run_inspection_cycle: with a run_id the PUT is sent inside
\* "try ... except Exception: logger.error"; its response is not examined
CycleUpdateRun(putOk) ==
    /\ inspection.stage = "on"
    /\ inspection.cycle.pc = "updating"
    /\ LET c == inspection.cycle
       IN  inspection' = [inspection EXCEPT
              !.cycle.pc = "returned",
              !.runs = IF c.run_id # None /\ putOk
                       THEN [@ EXCEPT ![The(c.run_id)] = UpdatedRun(@, c)]
                       ELSE @]
    /\ UNCHANGED <<cloudVars, detectors, ingest, health, demo>>

InitInspection ==
    /\ InitBackend
    /\ req = [r \in Requests |-> IdleRequest]
    /\ InitWorker
    /\ pipe = PipeOff
    /\ consumer = ConsumerOff
    /\ deletion = DeletionOff
    /\ detectors = DetectorTable
    /\ ingest = IngestOff
    /\ health = HealthOff
    /\ inspection = [stage |-> "on", runs |-> <<>>, cycles |-> 0, cycle |-> IdleCycle]
    /\ demo = DemoOff
    /\ disk = DiskOff

NextInspection ==
    \/ \E n \in 0..MaxCameras, post \in {"ok", "failed", "lost"} : CycleStart(n, post)
    \/ \E outcome \in InspectionOutcomes : InspectCamera(outcome)
    \/ \E putOk \in BOOLEAN : CycleUpdateRun(putOk)

SpecInspection == InitInspection /\ [][NextInspection]_vars

\* --------------- services/demo_session_manager.py and routers/demo_streams.py
\* One demo session in detector mode. The DemoSession row holds status,
\* total_frames_captured and total_detections; every reader works on the
\* values its own database session loaded and a commit writes the columns it
\* changed with the values it computed.
SessionDetectorIds == <<"d1", "d2">>
\* what the worker answers to one inference thread: the number of detections
\* of a well-formed body, a requests.RequestException (error status, timeout,
\* connection), or a body that is JSON but not of the expected shape, on which
\* the handler raises TypeError or AttributeError
DetectionCounts == {0, 1, 2}
WorkerAnswers ==
    {[kind |-> "detections", n |-> n] : n \in DetectionCounts}
       \cup {[kind |-> "request_exception", n |-> 0], [kind |-> "malformed", n |-> 0]}

\* a PENDING Query with its PENDING DemoDetectionResult and the thread started
\* for them
NewPair ==
    [query_status |-> "PENDING", result_status |-> "PENDING", task |-> "started",
     n |-> 0, read_total_detections |-> 0]

IdleHandler == [pc |-> "idle", read_total_frames |-> 0]

DemoStep(d) ==
    /\ demo.stage = "on"
    /\ demo' = d
    /\ UNCHANGED <<cloudVars, detectors, ingest, health, inspection>>

\* start_session: the grabber is created, its capture thread started, and the
\* session registered in _active_sessions
StartSession ==
    /\ demo.stage = "on"
    /\ ~demo.started
    /\ demo.stop = "idle"
    /\ DemoStep([demo EXCEPT !.started = TRUE, !.active = TRUE, !.running = TRUE,
                             !.thread = "loop"])

\* on_frame_captured, first statement: the frame is stored in _latest_frames.
\* The capture loop calls on_frame for every JPEG in its buffer, without
\* looking at _running in between
OnFrameStore ==
    /\ demo.stage = "on"
    /\ demo.thread = "loop"
    /\ demo.on_frame.pc = "idle"
    /\ demo.captured < MaxCapturedFrames
    /\ DemoStep([demo EXCEPT !.captured = @ + 1,
                             !.latest_frame = Some(demo.captured + 1),
                             !.on_frame.pc = "stored"])

\* on_frame_captured: the DemoSession row is loaded; a session that is not
\* active ends the callback
OnFrameLoadSession ==
    /\ demo.stage = "on"
    /\ demo.on_frame.pc = "stored"
    /\ DemoStep([demo EXCEPT
          !.on_frame = IF demo.status = "active"
                       THEN [pc |-> "loaded", read_total_frames |-> demo.total_frames_captured]
                       ELSE IdleHandler])

\* "for detector_id in detector_ids": a pair for every target detector
PairsPerFrame(detector_ids) == [i \in DOMAIN detector_ids |-> NewPair]

\* on_frame_captured: the upload (an exception is logged and ends the
\* callback), the pairs, "session.total_frames_captured += 1", the commit, and
\* a thread per pair
OnFrameCommit(uploadOk) ==
    /\ demo.stage = "on"
    /\ demo.on_frame.pc = "loaded"
    /\ DemoStep(IF uploadOk
                THEN [demo EXCEPT
                         !.pairs = @ \o PairsPerFrame(SessionDetectorIds),
                         !.total_frames_captured = demo.on_frame.read_total_frames + 1,
                         !.frames_processed = @ + 1,
                         !.on_frame = IdleHandler]
                ELSE [demo EXCEPT !.on_frame = IdleHandler])

\* submit_frame: the DemoSession row is loaded; 400 unless it is active
SubmitFrameLoad ==
    /\ demo.stage = "on"
    /\ demo.submit_frame.pc = "idle"
    /\ demo.manual < MaxManualFrames
    /\ DemoStep([demo EXCEPT
          !.manual = @ + 1,
          !.submit_frame = IF demo.status = "active"
                           THEN [pc |-> "loaded",
                                 read_total_frames |-> demo.total_frames_captured]
                           ELSE IdleHandler])

\* submit_frame: the upload (500 when it fails), one pair for the detector of
\* the payload, "session.total_frames_captured += 1", the commit, the thread
SubmitFrameCommit(uploadOk) ==
    /\ demo.stage = "on"
    /\ demo.submit_frame.pc = "loaded"
    /\ DemoStep(IF uploadOk
                THEN [demo EXCEPT
                         !.pairs = Append(@, NewPair),
                         !.total_frames_captured = demo.submit_frame.read_total_frames + 1,
                         !.frames_processed = @ + 1,
                         !.submit_frame = IdleHandler]
                ELSE [demo EXCEPT !.submit_frame = IdleHandler])

\* _process_inference_local up to "session = result.session": the worker is
\* called; requests.RequestException sets both rows ERROR and commits; any
\* other exception reaches the outer handler, which only logs
AfterWorkerAnswer(pair, answer) ==
    CASE answer.kind = "detections" -> [pair EXCEPT !.task = "answered", !.n = answer.n]
      [] answer.kind = "request_exception" ->
            [pair EXCEPT !.task = "ended", !.query_status = "ERROR",
                         !.result_status = "ERROR"]
      [] OTHER -> [pair EXCEPT !.task = "ended"]

ProcessInferenceCall(p, answer) ==
    /\ demo.stage = "on"
    /\ p \in DOMAIN demo.pairs
    /\ demo.pairs[p].task = "started"
    /\ DemoStep([demo EXCEPT !.pairs[p] = AfterWorkerAnswer(@, answer)])

\* _process_inference_local: "session = result.session" loads the DemoSession
\* row of the thread's own database session
ProcessInferenceLoadSession(p) ==
    /\ demo.stage = "on"
    /\ p \in DOMAIN demo.pairs
    /\ demo.pairs[p].task = "answered"
    /\ DemoStep([demo EXCEPT !.pairs[p].task = "loaded",
                             !.pairs[p].read_total_detections = demo.total_detections])

\* _process_inference_local: "session.total_detections += len(detections)"
\* when there are detections, and the commit of both rows as DONE
ProcessInferenceCommit(p) ==
    /\ demo.stage = "on"
    /\ p \in DOMAIN demo.pairs
    /\ demo.pairs[p].task = "loaded"
    /\ LET pair == demo.pairs[p]
       IN  DemoStep([demo EXCEPT
              !.pairs[p] = [pair EXCEPT !.task = "ended", !.query_status = "DONE",
                                        !.result_status = "DONE"],
              !.total_detections = IF pair.n > 0 THEN pair.read_total_detections + pair.n
                                   ELSE @,
              !.detections_finished = @ + pair.n])

\* stop_demo_session calls stop_session when the session is registered:
\* both dictionary entries are popped
StopSessionPop ==
    /\ demo.stage = "on"
    /\ demo.stop = "idle"
    /\ DemoStep(IF demo.active
                THEN [demo EXCEPT !.stop = "popped", !.active = FALSE,
                                  !.latest_frame = None]
                ELSE [demo EXCEPT !.stop = "stop_session_returned"])

\* YouTubeFrameGrabber.stop: _running = False, the stop event is set and the
\* FFmpeg process terminated
GrabberStopSignal ==
    /\ demo.stage = "on"
    /\ demo.stop = "popped"
    /\ DemoStep([demo EXCEPT !.stop = "joining", !.running = FALSE])

\* YouTubeFrameGrabber.stop: "self._thread.join(timeout=5)" returns when the
\* capture thread has finished or when five seconds have passed
GrabberStopJoined(timedOut) ==
    /\ demo.stage = "on"
    /\ demo.stop = "joining"
    /\ demo.thread = "finished" \/ timedOut
    /\ DemoStep([demo EXCEPT !.stop = "stop_session_returned"])

\* the capture loop sees _running False at a loop head, between two callbacks
CaptureLoopExits ==
    /\ demo.stage = "on"
    /\ demo.thread = "loop"
    /\ ~demo.running
    /\ demo.on_frame.pc = "idle"
    /\ DemoStep([demo EXCEPT !.thread = "finished"])

\* stop_demo_session after stop_session: status "stopped" is committed
StopDemoSessionCommit ==
    /\ demo.stage = "on"
    /\ demo.stop = "stop_session_returned"
    /\ DemoStep([demo EXCEPT !.stop = "returned", !.status = "stopped"])

InitDemo ==
    /\ InitBackend
    /\ req = [r \in Requests |-> IdleRequest]
    /\ InitWorker
    /\ pipe = PipeOff
    /\ consumer = ConsumerOff
    /\ deletion = DeletionOff
    /\ detectors = DetectorTable
    /\ ingest = IngestOff
    /\ health = HealthOff
    /\ inspection = InspectionOff
    /\ disk = DiskOff
    /\ demo = [stage |-> "on", status |-> "active", total_frames_captured |-> 0,
               total_detections |-> 0, started |-> FALSE, active |-> FALSE,
               running |-> FALSE, thread |-> "none", latest_frame |-> None,
               captured |-> 0, manual |-> 0, on_frame |-> IdleHandler,
               submit_frame |-> IdleHandler, stop |-> "idle", pairs |-> <<>>,
               frames_processed |-> 0, detections_finished |-> 0]

NextDemo ==
    \/ StartSession
    \/ OnFrameStore
    \/ OnFrameLoadSession
    \/ \E uploadOk \in BOOLEAN : OnFrameCommit(uploadOk)
    \/ SubmitFrameLoad
    \/ \E uploadOk \in BOOLEAN : SubmitFrameCommit(uploadOk)
    \/ \E p \in DOMAIN demo.pairs, answer \in WorkerAnswers : ProcessInferenceCall(p, answer)
    \/ \E p \in DOMAIN demo.pairs : ProcessInferenceLoadSession(p)
    \/ \E p \in DOMAIN demo.pairs : ProcessInferenceCommit(p)
    \/ StopSessionPop
    \/ GrabberStopSignal
    \/ \E timedOut \in BOOLEAN : GrabberStopJoined(timedOut)
    \/ CaptureLoopExits
    \/ StopDemoSessionCommit

SpecDemo == InitDemo /\ [][NextDemo]_vars

\* ------------------------------------------------- nms on several classes
\* the class names postprocess_yolo attaches to the boxes of one image
NmsLabels == {"fire", "smoke"}

\* the detections postprocess_yolo hands to nms: every box carries the label
\* of its class, and boxes of different classes are in the one list
LabelledNmsInputs ==
    UNION { [1..n -> [label : NmsLabels, confidence : RawConfidences, bbox : Boxes]] :
            n \in 0..MaxClassDets }

\* postprocess_yolo up to its call of nms, on detections of several classes
InitNmsClasses ==
    /\ InitBackend
    /\ req = [r \in Requests |-> IdleRequest]
    /\ InitWorker
    /\ detectors = DetectorTable
    /\ ingest = IngestOff
    /\ health = HealthOff
    /\ inspection = InspectionOff
    /\ demo = DemoOff
    /\ disk = DiskOff
    /\ deletion = DeletionOff
    /\ consumer = ConsumerOff
    /\ \E ds \in LabelledNmsInputs, t \in IouThresholds :
          pipe = [stage |-> "nms", input |-> ds, dets |-> ds, iou_threshold |-> t, passes |-> 0]

SpecNmsClasses == InitNmsClasses /\ [][NextNms]_vars

\* ------------------------------------------ postprocess_yolo on a layout
\* sizes of one dimension of the model output: a batch of one or two, a row
\* of six, and the 84 and 85 of a COCO head
OutputDims == {1, 2, 6, 84, 85}

\* pred.shape: one, two or three dimensions
OutputShapes ==
    UNION { [1..n -> OutputDims] : n \in 1..3 }

\* the confidence the rows of the output carry (box[4], or obj_conf *
\* cls_conf), thousandths, on both sides of min_score_threshold
OutputConfidences == {100, 800}

\* detection_params["min_score_threshold"], default 0.25, thousandths
MinScoreThreshold == 250

\* boxes: the rows postprocess_yolo iterates over and the length of each;
\* a row of a one-dimensional array is a scalar and has no length
BoxesOfShape(shape) ==
    IF Len(shape) = 3
    THEN IF shape[3] = 6 THEN [rows |-> shape[2], len |-> Some(6)]
         ELSE IF shape[2] \in {84, 85} THEN [rows |-> shape[3], len |-> Some(shape[2])]
         ELSE [rows |-> shape[2], len |-> Some(shape[3])]
    ELSE IF Len(shape) = 2 THEN [rows |-> shape[1], len |-> Some(shape[2])]
    ELSE [rows |-> shape[1], len |-> None]

\* postprocess_yolo: what the call ends with; raised is the exception that
\* leaves it, detections the number of boxes appended before nms
PostprocessYolo(shape, conf, conf_thresh) ==
    LET boxes == BoxesOfShape(shape)
    IN  IF boxes.len = None
        THEN [raised |-> Some("TypeError"), detections |-> 0]
        ELSE IF The(boxes.len) = 6
        THEN [raised |-> None,
              detections |-> IF conf < conf_thresh THEN 0 ELSE boxes.rows]
        ELSE IF The(boxes.len) < 85
        THEN [raised |-> None, detections |-> 0]
        ELSE [raised |-> None,
              detections |-> IF conf < conf_thresh THEN 0 ELSE boxes.rows]

\* run_detector_inference calls postprocess_yolo on outputs[0]
PipePostprocess ==
    /\ pipe.stage = "postprocess"
    /\ pipe.result = None
    /\ pipe' = [pipe EXCEPT !.result =
                    Some(PostprocessYolo(pipe.shape, pipe.conf, MinScoreThreshold))]
    /\ UNCHANGED <<backendVars, workerVars, consumer, deletion, auxVars, disk>>

\* the primary session has run: pred is an array of some layout
InitPostprocess ==
    /\ InitBackend
    /\ req = [r \in Requests |-> IdleRequest]
    /\ InitWorker
    /\ detectors = DetectorTable
    /\ ingest = IngestOff
    /\ health = HealthOff
    /\ inspection = InspectionOff
    /\ demo = DemoOff
    /\ disk = DiskOff
    /\ deletion = DeletionOff
    /\ consumer = ConsumerOff
    /\ \E shape \in OutputShapes, conf \in OutputConfidences :
          pipe = [stage |-> "postprocess", shape |-> shape, conf |-> conf, result |-> None]

NextPostprocess == PipePostprocess

SpecPostprocess == InitPostprocess /\ [][NextPostprocess]_vars

\* ------------------ worker/detector_inference.py: download_model_from_blob
\* the /infer requests that name the detector, and the worker processes
\* (each with its own _model_cache) that serve them from one MODEL_CACHE_DIR
Downloads == 1..MaxDownloads
Processes == 1..MaxProcesses

\* a file is None when it has zero bytes and Some(v) when it holds the
\* complete artifact v
\* the file at local_path when the first request arrives: none, an empty one
\* left by an earlier failure, or a complete artifact
InitialLocalFiles == {"absent", "empty", "complete"}

\* the pcs at which a request is inside run_detector_inference
InDownload == {"check", "unlink", "open", "write", "verify", "rename", "cleanup"}
InInference == InDownload \cup {"load"}

NewDownload ==
    [pc |-> "new", process |-> 1,
     configured |-> 0,       \* primary_model_blob_path of the request's config
     artifact |-> 0,         \* history: the artifact at that path when the request arrived
     returned |-> "no",      \* history: what was at local_path when the call returned it
     used |-> None]          \* history: the artifact of the session inference ran on

DiskStep(c, call) ==
    /\ disk' = [disk EXCEPT !.calls[c] = call]
    /\ UNCHANGED <<backendVars, workerVars, pipe, consumer, deletion, auxVars>>

\* what is at a path: "absent", "empty" or "complete"
FileAt(d, entry) ==
    IF entry = None THEN "absent"
    ELSE IF d.files[The(entry)] = None THEN "empty" ELSE "complete"

\* a worker process takes an /infer request for the detector (its handler
\* thread serves one request at a time) and run_detector_inference calls
\* download_model_from_blob with the blob path of the request's config
InferArrives(c, p) ==
    /\ disk.stage = "on"
    /\ disk.calls[c].pc = "new"
    /\ \A o \in Downloads : disk.calls[o].pc \in InInference => disk.calls[o].process # p
    /\ DiskStep(c, [disk.calls[c] EXCEPT !.pc = "check", !.process = p,
                                         !.configured = disk.path,
                                         !.artifact = disk.store[disk.path]])

\* "if local_path.exists(): file_size = local_path.stat().st_size": a
\* non-empty file is returned as the model, an empty one is to be deleted
DownloadCheck(c) ==
    /\ disk.stage = "on"
    /\ disk.calls[c].pc = "check"
    /\ DiskStep(c, CASE FileAt(disk, disk.local) = "complete" ->
                            [disk.calls[c] EXCEPT !.pc = "load", !.returned = "complete"]
                     [] FileAt(disk, disk.local) = "empty" ->
                            [disk.calls[c] EXCEPT !.pc = "unlink"]
                     [] OTHER -> [disk.calls[c] EXCEPT !.pc = "open"])

\* "local_path.unlink()": whatever file is at the path now is removed; with no
\* file there FileNotFoundError leaves the call (this is before the try block)
DownloadUnlink(c) ==
    /\ disk.stage = "on"
    /\ disk.calls[c].pc = "unlink"
    /\ disk' = [disk EXCEPT !.local = None,
                            !.calls[c].pc = IF disk.local = None THEN "raised" ELSE "open"]
    /\ UNCHANGED <<backendVars, workerVars, pipe, consumer, deletion, auxVars>>

\* "with open(temp_path, 'wb') as f": model.onnx.tmp is created, or the file
\* that is there is truncated; file c is the one call c creates
DownloadOpenTemp(c) ==
    /\ disk.stage = "on"
    /\ disk.calls[c].pc = "open"
    /\ LET fd == IF disk.temp = None THEN c ELSE The(disk.temp)
       IN  disk' = [disk EXCEPT !.temp = Some(fd), !.files[fd] = None,
                                !.calls[c].pc = "write", !.fds[c] = fd]
    /\ UNCHANGED <<backendVars, workerVars, pipe, consumer, deletion, auxVars>>

\* "f.write(download_stream.readall())": the bytes of the blob go to the file
\* the call has open, wherever that file is linked by now; download_blob can
\* raise, and the blob can be empty
DownloadWrite(c, outcome) ==
    /\ disk.stage = "on"
    /\ disk.calls[c].pc = "write"
    /\ disk' = [disk EXCEPT
                   !.files[disk.fds[c]] =
                       IF outcome = "bytes"
                       THEN Some(disk.store[disk.calls[c].configured]) ELSE @,
                   !.calls[c].pc = IF outcome = "raised" THEN "cleanup" ELSE "verify"]
    /\ UNCHANGED <<backendVars, workerVars, pipe, consumer, deletion, auxVars>>

\* "file_size = temp_path.stat().st_size; if file_size == 0: temp_path.unlink();
\* raise ValueError": stat of a missing temp file raises FileNotFoundError
DownloadVerify(c) ==
    /\ disk.stage = "on"
    /\ disk.calls[c].pc = "verify"
    /\ disk' = [disk EXCEPT
                   !.temp = IF FileAt(disk, disk.temp) = "empty" THEN None ELSE @,
                   !.calls[c].pc = IF FileAt(disk, disk.temp) = "complete"
                                   THEN "rename" ELSE "cleanup"]
    /\ UNCHANGED <<backendVars, workerVars, pipe, consumer, deletion, auxVars>>

\* "temp_path.rename(local_path); return local_path": the file at the temp
\* path, as it is now, replaces the one at the final path
DownloadRename(c) ==
    /\ disk.stage = "on"
    /\ disk.calls[c].pc = "rename"
    /\ IF disk.temp = None
       THEN disk' = [disk EXCEPT !.calls[c].pc = "cleanup"]
       ELSE disk' = [disk EXCEPT !.local = disk.temp, !.temp = None,
                                 !.calls[c].pc = "load",
                                 !.calls[c].returned = FileAt(disk, disk.temp)]
    /\ UNCHANGED <<backendVars, workerVars, pipe, consumer, deletion, auxVars>>

\* "except Exception: if temp_path.exists(): temp_path.unlink(); raise"
DownloadCleanup(c) ==
    /\ disk.stage = "on"
    /\ disk.calls[c].pc = "cleanup"
    /\ disk' = [disk EXCEPT !.temp = None, !.calls[c].pc = "raised"]
    /\ UNCHANGED <<backendVars, workerVars, pipe, consumer, deletion, auxVars>>

\* load_onnx_model: the session cached under f"{detector_id}_{role}" in this
\* process is returned if there is one; otherwise ort.InferenceSession reads
\* the file at model_path (it raises for a missing or empty file, and can
\* raise for any other) and the session is put into the cache
LoadOnnxModel(c, loadOk) ==
    /\ disk.stage = "on"
    /\ disk.calls[c].pc = "load"
    /\ LET p == disk.calls[c].process
       IN  IF disk.sessions[p] # None
           THEN disk' = [disk EXCEPT !.calls[c].pc = "done",
                                     !.calls[c].used = disk.sessions[p]]
           ELSE IF FileAt(disk, disk.local) = "complete" /\ loadOk
           THEN disk' = [disk EXCEPT !.calls[c].pc = "done",
                                     !.calls[c].used = disk.files[The(disk.local)],
                                     !.sessions[p] = disk.files[The(disk.local)]]
           ELSE disk' = [disk EXCEPT !.calls[c].pc = "raised"]
    /\ UNCHANGED <<backendVars, workerVars, pipe, consumer, deletion, auxVars>>

\* upload_detector_model: a new artifact is uploaded to
\* "{detector_id}/{model_type}/{file.filename}", the path of the previous
\* upload when the file name is the same and a new path otherwise, and the
\* detector's blob path is set to it
UploadDetectorModel(same_filename) ==
    /\ disk.stage = "on"
    /\ disk.uploads < MaxVersions
    /\ LET path == IF same_filename THEN disk.path ELSE disk.uploads + 1
       IN  disk' = [disk EXCEPT !.uploads = @ + 1, !.path = path,
                                !.store[path] = disk.uploads + 1]
    /\ UNCHANGED <<backendVars, workerVars, pipe, consumer, deletion, auxVars>>

\* a worker with artifact 1 uploaded for the detector and a model directory
\* that earlier runs may have written to
InitDownload ==
    /\ InitBackend
    /\ req = [r \in Requests |-> IdleRequest]
    /\ InitWorker
    /\ pipe = PipeOff
    /\ consumer = ConsumerOff
    /\ deletion = DeletionOff
    /\ detectors = DetectorTable
    /\ ingest = IngestOff
    /\ health = HealthOff
    /\ inspection = InspectionOff
    /\ demo = DemoOff
    /\ \E f \in InitialLocalFiles :
          disk = [stage |-> "on", uploads |-> 1, path |-> 1,
                  store |-> [b \in 1..MaxVersions |-> IF b = 1 THEN 1 ELSE 0],
                  files |-> [i \in 0..MaxDownloads |->
                                IF i = 0 /\ f = "complete" THEN Some(1) ELSE None],
                  local |-> IF f = "absent" THEN None ELSE Some(0),
                  temp |-> None,
                  fds |-> [c \in Downloads |-> 0],
                  sessions |-> [p \in Processes |-> None],
                  calls |-> [c \in Downloads |-> NewDownload]]

NextDownload ==
    \/ \E c \in Downloads, p \in Processes : InferArrives(c, p)
    \/ \E c \in Downloads : DownloadCheck(c)
    \/ \E c \in Downloads : DownloadUnlink(c)
    \/ \E c \in Downloads : DownloadOpenTemp(c)
    \/ \E c \in Downloads, outcome \in {"bytes", "empty", "raised"} : DownloadWrite(c, outcome)
    \/ \E c \in Downloads : DownloadVerify(c)
    \/ \E c \in Downloads : DownloadRename(c)
    \/ \E c \in Downloads : DownloadCleanup(c)
    \/ \E c \in Downloads, loadOk \in BOOLEAN : LoadOnnxModel(c, loadOk)
    \/ \E same_filename \in BOOLEAN : UploadDetectorModel(same_filename)

SpecDownload == InitDownload /\ [][NextDownload]_vars

\* ------------------------------------------------- routers/escalations.py
\* "func.lower(Query.result_label).contains(label.lower())" on the labels that
\* occur: "no" is part of "nothing" and of "no_detection"
LabelContains(result_label, label) ==
    CASE Lower(label) = "no" -> Lower(result_label) \in {"no", "nothing", "no_detection"}
      [] OTHER -> Lower(result_label) = Lower(label)

\* bodies of POST /escalations/generate: labels and confidence_threshold
\* (hundredths), no detector_id, no limit, dry_run false
GenerateRequests ==
    [labels : {<<>>, <<"no">>}, confidence_threshold : {None, Some(50)}]

\* the WHERE clause: no Escalation row for the query, and a label that
\* contains one of the labels or a confidence below the threshold; a NULL
\* column satisfies neither
MatchingQueries(request) ==
    {q \in 1..Len(queries) :
        /\ \A i \in 1..Len(escalations) : escalations[i].query_id # q
        /\ \/ /\ request.labels # <<>>
              /\ queries[q].result_label # None
              /\ \E k \in 1..Len(request.labels) :
                    LabelContains(The(queries[q].result_label), request.labels[k])
           \/ /\ request.confidence_threshold # None
              /\ queries[q].confidence # None
              /\ The(queries[q].confidence) < The(request.confidence_threshold)}

\* the reason string of a matched query, without the percentage that follows
\* "Low confidence"; a threshold or a confidence of 0 is falsy in the test
EscalationReason(request, row) ==
    LET byLabel == /\ request.labels # <<>>
                   /\ row.result_label # None /\ The(row.result_label) # ""
                   /\ \E k \in 1..Len(request.labels) :
                         LabelContains(The(row.result_label), request.labels[k])
        byConfidence == /\ request.confidence_threshold # None
                        /\ The(request.confidence_threshold) # 0
                        /\ row.confidence # None /\ The(row.confidence) # 0
                        /\ The(row.confidence) < The(request.confidence_threshold)
    IN  IF byLabel /\ byConfidence THEN "Label match: no; Low confidence"
        ELSE IF byLabel THEN "Label match: no"
        ELSE IF byConfidence THEN "Low confidence"
        ELSE "Manual escalation"

\* the Escalation rows added for a set of queries, in the order of their ids
RECURSIVE NewEscalations(_, _)
NewEscalations(request, qs) ==
    IF qs = {} THEN <<>>
    ELSE LET q == CHOOSE x \in qs : \A y \in qs : x <= y
         IN  <<[query_id |-> q, reason |-> EscalationReason(request, queries[q]),
                resolved |-> FALSE]>> \o NewEscalations(request, qs \ {q})

\* generate_escalations: with no criterion it returns at once; otherwise every
\* matching query gets an Escalation row, escalated = True and status
\* ESCALATED, in one commit
GenerateEscalations(request) ==
    /\ nReviews < MaxReviews
    /\ nReviews' = nReviews + 1
    /\ LET matching == MatchingQueries(request)
       IN  /\ escalations' = escalations \o NewEscalations(request, matching)
           /\ queries' = [q \in 1..Len(queries) |->
                             IF q \in matching
                             THEN [queries[q] EXCEPT !.escalated = TRUE,
                                                     !.status = "ESCALATED"]
                             ELSE queries[q]]
    /\ UNCHANGED <<feedback, alerts, alertConfig, blobs, sbQueue, req, demoTasks,
                   nDemoFrames, now>>

\* resolve_escalation: the row's resolved flag is set
ResolveEscalation(e) ==
    /\ nReviews < MaxReviews
    /\ nReviews' = nReviews + 1
    /\ e \in 1..Len(escalations)
    /\ escalations' = [escalations EXCEPT ![e].resolved = TRUE]
    /\ UNCHANGED <<queries, feedback, alerts, alertConfig, blobs, sbQueue, req,
                   demoTasks, nDemoFrames, now>>

\* the query pipeline together with the escalations API
NextReview ==
    \/ Next
    \/ \E request \in GenerateRequests :
          GenerateEscalations(request) /\ UNCHANGED <<workerVars, pipe, consumer, deletion, auxVars, disk>>
    \/ \E e \in 1..Len(escalations) :
          ResolveEscalation(e) /\ UNCHANGED <<workerVars, pipe, consumer, deletion, auxVars, disk>>

SpecReview == Init /\ [][NextReview]_vars

\* ------------------------------- services/demo_session_manager.py: the map
\* DemoSessionManager: _active_sessions is a dict in insertion order, here a
\* sequence of [sid, grabber]; a grabber is named by the start_session call
\* that created it. The endpoints are plain "def" functions, which the server
\* runs on a thread pool, so calls overlap.
SessionIds == {"s1", "s2"}
StartCalls == 1..MaxStartCalls
StopCalls == 1..MaxStopCalls

\* _active_sessions.get(sid), 0 for no entry
ActiveGrabber(active, sid) ==
    IF \E i \in 1..Len(active) : active[i].sid = sid
    THEN active[CHOOSE i \in 1..Len(active) : active[i].sid = sid].grabber
    ELSE 0

\* _active_sessions[sid] = grabber: an existing key keeps its place
SetActive(active, sid, g) ==
    IF ActiveGrabber(active, sid) # 0
    THEN [i \in 1..Len(active) |->
             IF active[i].sid = sid THEN [sid |-> sid, grabber |-> g] ELSE active[i]]
    ELSE Append(active, [sid |-> sid, grabber |-> g])

\* _active_sessions.pop(sid, None)
PopActive(active, sid) == SelectSeq(active, LAMBDA e : e.sid # sid)

\* list(_active_sessions.keys())
ActiveKeys(active) == [i \in 1..Len(active) |-> active[i].sid]

\* start_session, the test at its top: an id in the map ends the call
StartSessionEnter(c, sid) ==
    /\ demo.stage = "sessions"
    /\ demo.starts[c].pc = "idle"
    /\ demo' = [demo EXCEPT !.starts[c] =
                   [pc |-> IF ActiveGrabber(demo.active, sid) # 0 THEN "returned"
                           ELSE "checked",
                    sid |-> sid]]
    /\ UNCHANGED <<cloudVars, detectors, ingest, health, inspection>>

\* start_session, the grabber: created and started, or the start raises and
\* the call ends in its except branch
StartSessionGrabber(c, ok) ==
    /\ demo.stage = "sessions"
    /\ demo.starts[c].pc = "checked"
    /\ demo' = IF ok
               THEN [demo EXCEPT !.starts[c].pc = "started",
                                 !.grabbers[c] = [sid |-> demo.starts[c].sid,
                                                  started |-> TRUE, running |-> TRUE]]
               ELSE [demo EXCEPT !.starts[c].pc = "raised"]
    /\ UNCHANGED <<cloudVars, detectors, ingest, health, inspection>>

\* start_session, the registration of the started grabber
StartSessionRegister(c) ==
    /\ demo.stage = "sessions"
    /\ demo.starts[c].pc = "started"
    /\ demo' = [demo EXCEPT !.starts[c].pc = "returned",
                            !.active = SetActive(@, demo.starts[c].sid, c)]
    /\ UNCHANGED <<cloudVars, detectors, ingest, health, inspection>>

\* a stop call moves on to its next id, or ends
StopAdvance(call) ==
    [pc |-> IF Len(call.todo) > 1 THEN "popping" ELSE "returned",
     todo |-> Tail(call.todo), capture |-> 0]

\* stop_session(sid) is called
StopSessionCall(k, sid) ==
    /\ demo.stage = "sessions"
    /\ demo.stops[k].pc = "idle"
    /\ demo' = [demo EXCEPT !.stops[k] = [pc |-> "popping", todo |-> <<sid>>, capture |-> 0]]
    /\ UNCHANGED <<cloudVars, detectors, ingest, health, inspection>>

\* stop_all is called: stop_session for each key of the map as it is now
StopAllCall(k) ==
    /\ demo.stage = "sessions"
    /\ demo.stops[k].pc = "idle"
    /\ demo' = [demo EXCEPT !.stops[k] =
                   [pc |-> IF demo.active = <<>> THEN "returned" ELSE "popping",
                    todo |-> ActiveKeys(demo.active), capture |-> 0]]
    /\ UNCHANGED <<cloudVars, detectors, ingest, health, inspection>>

\* stop_session, the pop: the entry leaves the map; without an entry the call
\* logs a warning and is done with this id
ManagerStopPop(k) ==
    /\ demo.stage = "sessions"
    /\ demo.stops[k].pc = "popping"
    /\ LET sid == Head(demo.stops[k].todo)
           capture == ActiveGrabber(demo.active, sid)
       IN  demo' = [demo EXCEPT !.active = PopActive(@, sid),
                                !.stops[k] = IF capture = 0 THEN StopAdvance(@)
                                             ELSE [@ EXCEPT !.pc = "stopping",
                                                            !.capture = capture]]
    /\ UNCHANGED <<cloudVars, detectors, ingest, health, inspection>>

\* stop_session, capture.stop(): the grabber's loop ends
ManagerStopCapture(k) ==
    /\ demo.stage = "sessions"
    /\ demo.stops[k].pc = "stopping"
    /\ demo' = [demo EXCEPT !.grabbers[demo.stops[k].capture].running = FALSE,
                            !.stops[k] = StopAdvance(@)]
    /\ UNCHANGED <<cloudVars, detectors, ingest, health, inspection>>

\* the session manager after construction, with no call made yet
InitSessions ==
    /\ InitBackend
    /\ req = [r \in Requests |-> IdleRequest]
    /\ InitWorker
    /\ detectors = DetectorTable
    /\ ingest = IngestOff
    /\ health = HealthOff
    /\ inspection = InspectionOff
    /\ disk = DiskOff
    /\ deletion = DeletionOff
    /\ pipe = PipeOff
    /\ consumer = ConsumerOff
    /\ demo = [stage |-> "sessions",
               active |-> <<>>,
               grabbers |-> [c \in StartCalls |->
                                [sid |-> "", started |-> FALSE, running |-> FALSE]],
               starts |-> [c \in StartCalls |-> [pc |-> "idle", sid |-> ""]],
               stops |-> [k \in StopCalls |-> [pc |-> "idle", todo |-> <<>>, capture |-> 0]]]

NextSessions ==
    \/ \E c \in StartCalls, sid \in SessionIds : StartSessionEnter(c, sid)
    \/ \E c \in StartCalls, ok \in BOOLEAN : StartSessionGrabber(c, ok)
    \/ \E c \in StartCalls : StartSessionRegister(c)
    \/ \E k \in StopCalls, sid \in SessionIds : StopSessionCall(k, sid)
    \/ \E k \in StopCalls : StopAllCall(k)
    \/ \E k \in StopCalls : ManagerStopPop(k)
    \/ \E k \in StopCalls : ManagerStopCapture(k)

SpecSessions == InitSessions /\ [][NextSessions]_vars

\* ================================================================== claims
\* ------------------------------------------------------------ shared terms
\* the entries of a detection list with the maximum confidence
MaxConfidenceEntries(dets) ==
    {i \in 1..Len(dets) : \A j \in 1..Len(dets) : dets[j].confidence <= dets[i].confidence}

\* the first of them
FirstMaxEntry(dets) ==
    dets[CHOOSE i \in MaxConfidenceEntries(dets) : \A j \in MaxConfidenceEntries(dets) : i <= j]

\* the stored detections of a row, a NULL column read as the empty list
StoredDetections(row) ==
    IF row.detections_json = None THEN <<>> ELSE The(row.detections_json)

HasFeedback(q) == \E i \in 1..Len(feedback) : feedback[i].query_id = q

EscalationsOf(q) == {i \in 1..Len(escalations) : escalations[i].query_id = q}

MessagesOf(q) == {i \in 1..Len(sbQueue) : sbQueue[i].query_id = q}

\* a synchronous request whose inference succeeded and which has returned
SyncReturned(r) ==
    req[r].pc = "returned" /\ ~req[r].want_async /\ req[r].detections # None

\* ---------------------------------------------------------------------- C1
\* C1 as stated: every DONE Query has result_label equal to the label of a
\* maximum-confidence entry of its stored detections, or "nothing" with
\* confidence 1.0 when it stores none.
C1_DoneLabelIsTopDetection ==
    \A q \in 1..Len(queries) :
        queries[q].status = "DONE" =>
            LET dets == StoredDetections(queries[q])
            IN  IF dets = <<>>
                THEN queries[q].result_label = Some("nothing")
                     /\ queries[q].confidence = Some(100)
                ELSE \E i \in MaxConfidenceEntries(dets) :
                        queries[q].result_label = Some(dets[i].label)

\* C1 amended: every DONE Query that stores a detection list (detections_json
\* not NULL: create_query's synchronous inference completed it) and has no
\* Feedback row has the label and confidence of the first maximum-confidence
\* entry of that list, or "nothing" and 1.0 when the list is empty.
C1_SyncDoneLabelIsTopDetection ==
    \A q \in 1..Len(queries) :
        (queries[q].status = "DONE" /\ queries[q].detections_json # None /\ ~HasFeedback(q)) =>
            LET dets == The(queries[q].detections_json)
            IN  IF dets = <<>>
                THEN queries[q].result_label = Some("nothing")
                     /\ queries[q].confidence = Some(100)
                ELSE queries[q].result_label = Some(FirstMaxEntry(dets).label)
                     /\ queries[q].confidence = Some(FirstMaxEntry(dets).confidence)

\* C1 witness: a DONE query without feedback storing two detections, the
\* second of which has the higher confidence
C1_Witness ==
    \E q \in 1..Len(queries) :
        /\ queries[q].status = "DONE" /\ ~HasFeedback(q)
        /\ queries[q].detections_json # None
        /\ Len(The(queries[q].detections_json)) = 2
        /\ The(queries[q].detections_json)[1].confidence
              < The(queries[q].detections_json)[2].confidence

\* ---------------------------------------------------------------------- C2
\* C2 as stated: for every Query with ground_truth set, is_correct is true
\* exactly when lowercase(result_label) = lowercase(ground_truth).
C2_IsCorrectMatchesLabels ==
    \A q \in 1..Len(queries) :
        queries[q].ground_truth # None =>
            ( queries[q].is_correct = Some(TRUE)
              <=> ( queries[q].result_label # None
                    /\ Lower(The(queries[q].result_label))
                          = Lower(The(queries[q].ground_truth)) ) )

\* ---------------------------------------------------------------------- C3
\* the alert rows of a detector
AlertsOf(detector_id) == {i \in 1..Len(alerts) : alerts[i].detector_id = detector_id}

LoadersOf(key) ==
    {w \in DOMAIN wreq :
        \/ wreq[w].pc = "load_primary" /\ key = <<wreq[w].detector_id, "primary">>
        \/ wreq[w].pc = "load_oodd" /\ key = <<wreq[w].detector_id, "oodd">>}

\* the session a request has received for a key, 0 when none yet
SessionOf(w, key) ==
    IF key[1] # wreq[w].detector_id THEN 0
    ELSE IF key[2] = "primary" THEN wreq[w].primary ELSE wreq[w].oodd

C6_InferenceFailureEndsError ==
    \A r \in DOMAIN req :
        (req[r].events # <<>> /\ req[r].events[Len(req[r].events)] = "infer_raise") =>
            /\ req[r].pc = "failed"
            /\ req[r].raised = "HTTPException: Inference worker error"
            /\ (~HasFeedback(req[r].qid) => queries[req[r].qid].status = "ERROR")
            /\ EscalationsOf(req[r].qid) = {}

\* ---------------------------------------------------------------------- C7
\* C7: when create_query's blob upload fails the handler ends with the storage
\* error and has left nothing behind: no Query row of that submission, no
\* blob, no fallback message, and no inference call was made.
C7_UploadFailureLeavesNothing ==
    \A r \in DOMAIN req :
        req[r].raised = "StorageError" =>
            /\ req[r].pc = "failed"
            /\ \A q \in 1..Len(queries) : queries[q].image_blob_path # BlobPath(r)
            /\ \A i \in 1..Len(sbQueue) : sbQueue[i].blob_path # BlobPath(r)
            /\ BlobPath(r) \notin blobs
            /\ req[r].events = <<>>
            /\ req[r].qid = 0

\* C7 witness: a submission whose upload failed, next to a row of another
\* submission
C7_Witness ==
    \E r \in DOMAIN req : req[r].raised = "StorageError" /\ Len(queries) > 0

\* ---------------------------------------------------------------------- C8
\* C8 as stated: a failed enqueue of the fallback message is swallowed on the
\* low-confidence path of a synchronous request and reaches the caller as an
\* error when the request was submitted with want_async=true.
C8_EnqueueFailureByMode ==
    \A r \in DOMAIN req :
        (req[r].enqueueFailed /\ req[r].pc \in {"returned", "failed"}) =>
            IF req[r].want_async THEN req[r].pc = "failed" ELSE req[r].pc = "returned"

\* ---------------------------------------------------------------------- C9
\* C9: once upload and inference of a synchronous create_query have succeeded
\* the handler never fails, and it returns the persisted Query with the label
\* and confidence of the top detection and the status the threshold gives,
\* whichever of the fallback enqueue, the function alert, the direct
\* email/SMS fallback and the detector alert trigger failed.
C9_SideEffectFailuresKeepResult ==
    \A r \in DOMAIN req :
        (~req[r].want_async /\ req[r].detections # None) =>
            /\ req[r].pc \in {"alerting", "returned"}
            /\ req[r].pc = "returned" =>
                  LET dets == The(req[r].detections)
                      q == The(req[r].response)
                      conf == IF dets = <<>> THEN 100 ELSE FirstMaxEntry(dets).confidence
                  IN  /\ q.result_label
                            = Some(IF dets = <<>> THEN "nothing" ELSE FirstMaxEntry(dets).label)
                      /\ q.confidence = Some(conf)
                      /\ q.status = IF conf < req[r].confidence_threshold
                                    THEN "ESCALATED" ELSE "DONE"
                      /\ q.detections_json = Some(dets)

\* C9 witness: a returned request all of whose side-effects failed
C9_Witness ==
    \E r \in DOMAIN req :
        /\ SyncReturned(r)
        /\ req[r].enqueueFailed /\ req[r].functionFailed /\ req[r].directFailed
        /\ req[r].triggerRaised

\* --------------------------------------------------------------------- C10
\* the events of a synchronous query in the order claimed
SyncOrder == <<"upload", "insert", "infer_call", "infer_ret", "commit", "alert_eval">>

\* C10: within one synchronous query the upload precedes the inference call,
\* the inference returns before the result is committed, and the commit
\* precedes the alert engine's evaluation, which reads the committed row.
C10_SyncEventOrder ==
    \A r \in DOMAIN req :
        (~req[r].want_async /\ req[r].events # <<>>) =>
            /\ \/ req[r].events = SubSeq(SyncOrder, 1, Len(req[r].events))
               \/ req[r].events = <<"upload", "insert", "infer_call", "infer_raise">>
            /\ req[r].pc = "returned" => req[r].events = SyncOrder
            /\ Len(req[r].events) >= 1 => BlobPath(r) \in blobs
            /\ Len(req[r].events) >= 5 =>
                  queries[req[r].qid].detections_json = req[r].detections

\* C10 witness: a synchronous query whose alert evaluation has run
C10_Witness ==
    \E r \in DOMAIN req :
        /\ SyncReturned(r)
        /\ req[r].events = SyncOrder

\* --------------------------------------------------------------------- C11
\* a returned synchronous request whose result met the enabled LABEL_MATCH
\* condition of the detector's alert configuration
TriggeringCall(r) ==
    /\ SyncReturned(r)
    /\ The(alertConfig).enabled
    /\ The(alertConfig).condition_type = "LABEL_MATCH"
    /\ Upper(The(The(req[r].response).result_label))
          = Upper(The(The(alertConfig).condition_value))

C12_ConsecutiveMatchesAlert ==
    /\ \A i \in 1..Len(alerts) :
          \A q \in 1..Len(queries) :
             (q <= alerts[i].query_id /\ q > alerts[i].query_id - Cardinality(DOMAIN req)) =>
                 /\ queries[q].result_label # None
                 /\ Upper(The(queries[q].result_label))
                       = Upper(The(The(alertConfig).condition_value))
    /\ (\A r \in DOMAIN req : TriggeringCall(r)) => alerts # <<>>

\* --------------------------------------------------------------------- C13
\* the keys of an ordered dict, and the place of a key in it
KeysIn(d) == {d[i].key : i \in 1..Len(d)}

PlaceOf(d, k) == CHOOSE i \in 1..Len(d) : d[i].key = k

C14_CacheBoundedAndMapsAgree ==
    /\ Len(cache) <= MaxModels
    /\ Len(access_count) = Len(cache)
    /\ \A i \in 1..Len(cache) : cache[i].key = access_count[i].key
    /\ \A i, j \in 1..Len(cache) : cache[i].key = cache[j].key => i = j

\* C14 witness: the cache is full after an eviction (more sessions were
\* created than it holds) while a further request waits to be served
C14_Witness ==
    /\ Len(cache) = MaxModels
    /\ nextSession > MaxModels + 1
    /\ listenQueue # <<>>

\* --------------------------------------------------------------------- C15
\* C15 as stated: while a request is in its handler and holds the session it
\* obtained for a key, that key is in the cache with that session.
C15_NoEvictionWhileHeld ==
    \A w \in DOMAIN wreq :
        wreq[w].pc \in InHandler =>
            \A role \in {"primary", "oodd"} :
                SessionOf(w, <<wreq[w].detector_id, role>>) # 0 =>
                    \E i \in 1..Len(cache) :
                        /\ cache[i].key = <<wreq[w].detector_id, role>>
                        /\ cache[i].value = SessionOf(w, <<wreq[w].detector_id, role>>)

\* --------------------------------------------------------------------- C17
\* C17: for every detection list and IoU threshold, nms applied to its own
\* output returns that output unchanged, and the first detection of maximum
\* confidence of the list given is in the result of every pass.
C17_NmsIdempotent ==
    [][ /\ pipe.passes >= 1 => pipe'.dets = pipe.dets
        /\ pipe'.input # <<>> =>
              \E i \in 1..Len(pipe'.dets) : pipe'.dets[i] = FirstMaxEntry(pipe'.input)
      ]_vars

\* C17 witness: nms has run twice on three detections at threshold 0.45, the
\* first pass suppressed one of them and kept two
C17_Witness ==
    /\ pipe.stage = "nms"
    /\ pipe.passes = MaxNmsPasses
    /\ pipe.iou_threshold = 45
    /\ Len(pipe.input) = 3
    /\ Len(pipe.dets) = 2
    /\ pipe.input[1].confidence < pipe.input[2].confidence

\* --------------------------------------------------------------------- C16
\* C16: once the OODD gate has been applied, with a score at or above the
\* calibrated threshold (or no OODD model) every detection in the list has the
\* confidence postprocess_yolo gave it and oodd_adjusted = false; with a score
\* below it every detection in the list has that confidence times score * 0.5
\* and oodd_adjusted = true.
C16_OoddGate ==
    pipe.stage \in {"adjusted", "filtered", "emitted"} =>
        \A i \in 1..Len(pipe.dets) :
            LET d == pipe.dets[i]
                orig == pipe.input[d.id]
            IN  IF pipe.score = None \/ The(pipe.score) >= 444
                THEN d.confidence = orig.confidence /\ ~d.oodd_adjusted
                ELSE /\ d.confidence * 2000 = orig.confidence * The(pipe.score)
                     /\ d.oodd_adjusted

\* C16 witness: a detection of confidence 0.8 is emitted with 0.08 after an
\* OODD score of 0.2
C16_Witness ==
    /\ pipe.stage = "emitted"
    /\ pipe.score = Some(200)
    /\ \E i \in 1..Len(pipe.dets) :
          /\ pipe.input[pipe.dets[i].id].confidence = 1600000
          /\ pipe.dets[i].confidence = 160000
          /\ pipe.dets[i].oodd_adjusted

\* --------------------------------------------------------------------- C18
\* a returned synchronous request submitted with confidence_threshold = 1.0
\* whose inference returned at least one detection
NonEmptyAtThresholdOne(r) ==
    /\ SyncReturned(r)
    /\ req[r].confidence_threshold = 100
    /\ The(req[r].detections) # <<>>

\* C18 as stated: with confidence_threshold = 1.0 every synchronous query with
\* at least one detection ends ESCALATED, whatever its top confidence.
C18_ThresholdOneAlwaysEscalates ==
    \A r \in DOMAIN req :
        NonEmptyAtThresholdOne(r) => The(req[r].response).status = "ESCALATED"

\* C18 amended: with confidence_threshold = 1.0 a synchronous query with at
\* least one detection ends ESCALATED when its top confidence is below 1.0 and
\* DONE, not escalated, when its top confidence is exactly 1.0.
C18_ThresholdOneEscalatesBelowOne ==
    \A r \in DOMAIN req :
        NonEmptyAtThresholdOne(r) =>
            LET q == The(req[r].response)
            IN  IF FirstMaxEntry(The(req[r].detections)).confidence < 100
                THEN q.status = "ESCALATED" /\ q.escalated
                ELSE q.status = "DONE" /\ ~q.escalated

\* C18 witness: a query with top confidence 0.95 escalated under threshold 1.0
C18_Witness ==
    \E r \in DOMAIN req :
        /\ NonEmptyAtThresholdOne(r)
        /\ FirstMaxEntry(The(req[r].detections)).confidence = 95
        /\ The(req[r].response).status = "ESCALATED"

\* --------------------------------------------------------------------- C19
\* C19 as stated: a message in the dead-letter queue after one delivery is
\* one that could not be parsed or lacked a required field; a well-formed
\* message whose fetch, inference or result send failed was abandoned, never
\* dead-lettered.
C19_TransientFailuresAbandoned ==
    \A i \in 1..Len(consumer.dead) :
        (consumer.dead[i].delivery_count = 1) =>
            /\ consumer.dead[i].kind # "well_formed"
            /\ consumer.dead[i].failed_at = "parse"

\* --------------------------------------------------------------------- C20
\* C20 as stated: every Query row in the table still has its image blob (the
\* blob goes only after the rows), and a delete_query call that has deleted
\* the blob ends successfully with the Query row and its Escalation, Feedback
\* and ImageAnnotation rows gone.
C20_RowsBeforeBlob ==
    /\ \A q \in 1..Len(queries) :
          q \notin deletion.gone => queries[q].image_blob_path \in blobs
    /\ \A c \in DOMAIN deletion.calls :
          (deletion.calls[c].pc \in {"returned", "failed"} /\ deletion.calls[c].qid # 0
           /\ queries[deletion.calls[c].qid].image_blob_path \notin blobs) =>
              /\ deletion.calls[c].pc = "returned"
              /\ deletion.calls[c].qid \in deletion.gone
              /\ EscalationsOf(deletion.calls[c].qid) = {}
              /\ ~HasFeedback(deletion.calls[c].qid)
              /\ deletion.calls[c].qid \notin deletion.annotated

\* --------------------------------------------------------------------- C21
\* C21 as stated: after a delete_detector call on a detector and until a
\* restore_detector call on it, a create_query call that starts for that
\* detector is rejected before anything is produced: the call fails and no
\* Query row, blob or queue message is added, and no inference call is made.
C21_DeletedDetectorRejected ==
    [][\A r \in DOMAIN req, d \in DOMAIN detectors :
          (/\ detectors[d].last_call # <<>>
           /\ detectors[d].last_call[1] = "delete_detector"
           /\ detectors' = detectors
           /\ req[r].pc = "idle"
           /\ req'[r].pc # "idle"
           /\ req'[r].detector_id = d)
          => /\ req'[r].pc = "failed"
             /\ queries' = queries
             /\ blobs' = blobs
             /\ sbQueue' = sbQueue]_vars

\* --------------------------------------------------------------------- C22
\* C22 as stated: whenever a worker calls _submit_frame after an earlier call,
\* at least sampling_interval_seconds have passed since that earlier call, on
\* every path through the loop (after a submission that raised too).
C22_OneSubmissionPerInterval ==
    ingest.stage = "on" =>
        \A s \in Streams :
            ingest.workers[s].last_gap # None =>
                The(ingest.workers[s].last_gap) >= ingest.config.sampling_interval_seconds

\* --------------------------------------------------------------------- C23
\* C23: once the stop event of a worker is set the worker eventually returns
\* from run, and StreamIngestManager.stop, once it waits, eventually returns;
\* a worker that has seen the stop event has returned (it reads and submits
\* nothing afterwards), a worker that has returned holds no capture and no
\* frame, and after StreamIngestManager.stop has returned every worker task has
\* finished and no task or worker is registered.
C23_StopEndsEveryWorker ==
    /\ [](ingest.stage = "on" =>
            /\ \A s \in Streams :
                  /\ ingest.workers[s].stop_observed => ingest.workers[s].pc = "returned"
                  /\ ingest.workers[s].pc = "returned" =>
                        ~ingest.workers[s].capture /\ ingest.workers[s].frame = None
            /\ ingest.manager = "stopped" =>
                  /\ ingest.tasks = {} /\ ingest.registered = {}
                  /\ \A s \in Streams : ingest.workers[s].pc \in {"created", "returned"})
    /\ \A s \in Streams :
          (ingest.stage = "on" /\ ingest.workers[s].stop_event)
             ~> (ingest.workers[s].pc = "returned")
    /\ (ingest.stage = "on" /\ ingest.manager = "stopping") ~> (ingest.manager = "stopped")

\* stop has returned after a worker that had submitted a frame saw the signal
C23_Witness ==
    /\ ingest.stage = "on"
    /\ ingest.manager = "stopped"
    /\ \E s \in Streams :
          /\ ingest.workers[s].stop_observed
          /\ ingest.workers[s].submitted # None
          /\ ingest.workers[s].pc = "returned"

\* --------------------------------------------------------------------- C24
\* C24 as stated: with camera health enabled and skip_unhealthy_frames set, the
\* frame a worker submitted last is never one whose own health status is
\* critical, whatever health_check_interval_seconds is.
C24_NoCriticalFrameSubmitted ==
    (/\ ingest.stage = "on"
     /\ ingest.config.health_enabled
     /\ ingest.config.skip_unhealthy_frames)
    => \A s \in Streams : ingest.workers[s].submitted # Some("critical")

\* --------------------------------------------------------------------- C25
\* the sum of the penalties of a list of issues
RECURSIVE PenaltySum(_, _)
PenaltySum(issues, tampering) ==
    IF issues = <<>> THEN 0
    ELSE (IF tampering THEN TamperingDeduction(Head(issues))
          ELSE QualityDeduction(Head(issues)))
         + PenaltySum(Tail(issues), tampering)

\* C25: for every assessment made, the score is 100 minus the penalties of
\* its quality and tampering issues, clamped to 0..100, and the status is
\* critical if obstruction is among the issues or the score is below 50,
\* warning if 50 <= score < 80, healthy if score >= 80.
C25_ScoreAndStatus ==
    (health.stage = "on" /\ health.result # None) =>
        LET r == The(health.result)
            raw == 100 - PenaltySum(r.quality_issues, FALSE)
                       - PenaltySum(r.tampering_issues, TRUE)
            obstruction == \E i \in DOMAIN r.tampering_issues :
                              r.tampering_issues[i] = "obstruction"
        IN  /\ r.overall_score = (IF raw < 0 THEN 0 ELSE IF raw > 100 THEN 100 ELSE raw)
            /\ r.status = "critical" <=> (obstruction \/ r.overall_score < 50)
            /\ r.status = "warning" <=>
                  (~obstruction /\ 50 <= r.overall_score /\ r.overall_score < 80)
            /\ r.status = "healthy" <=> (~obstruction /\ r.overall_score >= 80)

\* an assessment without obstruction whose score is exactly 50
C25_Witness ==
    /\ health.stage = "on"
    /\ health.result # None
    /\ The(health.result).overall_score = 50
    /\ The(health.result).status = "warning"
    /\ The(health.result).tampering_issues # <<>>

\* --------------------------------------------------------------------- C30
\* C30 as stated: whenever assess_health has assessed the obstructed test
\* frame (half of its pixels black), with check_tampering False too, the
\* overall score is below 50 and the status is critical.
C30_ObstructedFrameCritical ==
    (/\ health.stage = "on"
     /\ health.result # None
     /\ health.frame = Some(ObstructedTestFrame))
    => /\ The(health.result).overall_score < 50
       /\ The(health.result).status = "critical"

\* --------------------------------------------------------------------- C26
\* C26 as stated: a cycle that is inspecting cameras has written its
\* InspectionRun, which is in status running; a cycle that has inspected
\* cameras and ended has updated that run to completed with
\* cameras_healthy + cameras_warning + cameras_failed = number of cameras;
\* and no run is left in status running by a cycle that has ended.
C26_RunWrittenAndCompleted ==
    inspection.stage = "on" =>
        LET c == inspection.cycle
        IN  /\ c.pc \in {"inspecting", "updating"} =>
                  /\ c.run_id # None
                  /\ inspection.runs[The(c.run_id)].status = "running"
            /\ (c.pc = "returned" /\ c.cameras > 0) =>
                  /\ c.run_id # None
                  /\ LET run == inspection.runs[The(c.run_id)]
                     IN  /\ run.status = "completed"
                         /\ run.cameras_healthy # None
                         /\ The(run.cameras_healthy) + The(run.cameras_warning)
                               + The(run.cameras_failed) = c.cameras
            /\ c.pc \in {"idle", "returned"} =>
                  \A i \in DOMAIN inspection.runs : inspection.runs[i].status # "running"

\* --------------------------------------------------------------------- C27
\* C27 as stated: in every state after stop_session has returned, the
\* session has no latest frame: get_latest_frame returns nothing.
C27_BufferReleasedAfterStop ==
    (demo.stage = "on" /\ demo.stop \in {"stop_session_returned", "returned"})
    => demo.latest_frame = None

\* --------------------------------------------------------------------- C28
\* C28 as stated: total_frames_captured is the number of frames processed
\* (one per frame, whatever the number of target detectors) and
\* total_detections is the sum of the detections of the finished inferences.
C28_CountersExact ==
    demo.stage = "on" =>
        /\ demo.total_frames_captured = demo.frames_processed
        /\ demo.total_detections = demo.detections_finished

\* --------------------------------------------------------------------- C29
\* C29 as stated: when the inference thread of a pair has ended, the Query
\* and the DemoDetectionResult are both DONE or both ERROR, for every answer
\* of the worker.
C29_PairFinalized ==
    demo.stage = "on" =>
        \A p \in DOMAIN demo.pairs :
            demo.pairs[p].task = "ended" =>
                \/ demo.pairs[p].query_status = "DONE" /\ demo.pairs[p].result_status = "DONE"
                \/ demo.pairs[p].query_status = "ERROR" /\ demo.pairs[p].result_status = "ERROR"

\* --------------------------------------------------------------------- C31
\* C31: nms is per class: every detection of the list given that is missing
\* from the result has a kept detection of its own label, of at least its
\* confidence, with IoU >= iou_threshold; and no two kept detections of one
\* label have IoU >= iou_threshold.
C31_NmsPerClass ==
    (pipe.stage = "nms" /\ pipe.passes >= 1) =>
        /\ \A i \in 1..Len(pipe.input) :
              (\A k \in 1..Len(pipe.dets) : pipe.dets[k] # pipe.input[i]) =>
                  \E k \in 1..Len(pipe.dets) :
                      /\ pipe.dets[k].label = pipe.input[i].label
                      /\ pipe.dets[k].confidence >= pipe.input[i].confidence
                      /\ ~IouBelow(pipe.dets[k].bbox, pipe.input[i].bbox, pipe.iou_threshold)
        /\ \A j, k \in 1..Len(pipe.dets) :
              (j # k /\ pipe.dets[j].label = pipe.dets[k].label) =>
                  IouBelow(pipe.dets[j].bbox, pipe.dets[k].bbox, pipe.iou_threshold)

\* --------------------------------------------------------------------- C32
\* the layouts (1, N, 4+C), (1, 4+C, N) and (1, N, 6), for any number C >= 1
\* of classes
RecognisedLayout(shape) ==
    /\ Len(shape) = 3
    /\ shape[1] = 1
    /\ (shape[3] = 6 \/ shape[3] >= 5 \/ shape[2] >= 5)

\* C32: post-processing of a model output whose layout is none of
\* (1, N, 4+C), (1, 4+C, N), (1, N, 6) ends with an error; it never returns
\* a detection list, empty or not, for such an output.
C32_UnrecognisedLayoutFails ==
    (pipe.stage = "postprocess" /\ pipe.result # None /\ ~RecognisedLayout(pipe.shape)) =>
        The(pipe.result).raised # None

\* --------------------------------------------------------------------- C34
\* C34: class filtering and the per-class thresholds are applied to the
\* confidences the model gave, and the OODD multiplier afterwards: every
\* detection of postprocess_yolo whose label passes the class filter and whose
\* own confidence meets its threshold is in the list returned, whatever the
\* OODD score.
C34_OoddNeverRemoves ==
    pipe.stage = "emitted" =>
        \A i \in 1..Len(pipe.input) :
            LET d == pipe.input[i]
                threshold == IF d.label \in DOMAIN pipe.per_class_thresholds
                             THEN pipe.per_class_thresholds[d.label]
                             ELSE pipe.confidence_threshold
            IN  ( /\ (pipe.class_names = {} \/ d.label \in pipe.class_names)
                  /\ (pipe.per_class_thresholds = <<>> \/ d.confidence >= threshold) )
                => \E k \in 1..Len(pipe.dets) : pipe.dets[k].id = i

\* --------------------------------------------------------------------- C33
\* C33: the health gate fails open: a worker at the gate goes on to submit its
\* frame, or skips the frame for the sampling interval when the assessment
\* called it critical; it never leaves the gate for the reconnect backoff and
\* never loses the frame there, also when the assessment raises.
C33_GateFailsOpen ==
    [][ ingest.stage = "on" /\ ingest'.stage = "on" =>
          \A s \in Streams :
              ingest.workers[s].pc = "gate" =>
                  \/ ingest'.workers[s].pc = "gate"
                  \/ ingest'.workers[s].pc = "sampling_sleep"
                  \/ /\ ingest'.workers[s].pc = "submit"
                     /\ ingest'.workers[s].frame = ingest.workers[s].frame
      ]_vars

\* --------------------------------------------------------------------- C35
\* no download_model_from_blob call is in progress and one has ended
DownloadsSettled ==
    /\ \A c \in Downloads : disk.calls[c].pc \notin InDownload
    /\ \E c \in Downloads : disk.calls[c].pc # "new"

\* C35: a call never returns local_path while a zero-byte file is there; and
\* once the download attempts have ended (returned or raised, one at a time or
\* overlapping) the final path is absent or holds a complete artifact and no
\* temp file is left.
C35_FinalPathCompleteOrAbsent ==
    disk.stage = "on" =>
        /\ \A c \in Downloads : disk.calls[c].returned # "empty"
        /\ DownloadsSettled =>
              /\ FileAt(disk, disk.local) # "empty"
              /\ disk.temp = None

\* --------------------------------------------------------------------- C40
\* C40: an inference whose request names the detector's current blob path,
\* with no artifact uploaded to it since the request arrived, runs on a session
\* of the artifact at that path, also when an earlier artifact of the detector
\* is on disk or in the session cache.
C40_SessionOfConfiguredArtifact ==
    disk.stage = "on" =>
        \A c \in Downloads :
            ( /\ disk.calls[c].pc = "done"
              /\ disk.calls[c].configured = disk.path
              /\ disk.calls[c].artifact = disk.store[disk.path] )
            => disk.calls[c].used = Some(disk.calls[c].artifact)

\* --------------------------------------------------------------------- C36
\* C36: a step that adds a Feedback row leaves the query it names DONE with
\* escalated = false and changes no Escalation row; a step that changes the
\* resolved flag of an Escalation row sets it to true and changes no Query.
C36_FeedbackAndResolveFrames ==
    [][ /\ feedback' # feedback =>
              /\ Len(feedback') = Len(feedback) + 1
              /\ LET q == feedback'[Len(feedback')].query_id
                 IN  /\ queries'[q].status = "DONE"
                     /\ ~queries'[q].escalated
              /\ escalations' = escalations
        /\ \A i \in 1..Len(escalations) :
              (i <= Len(escalations') /\ escalations'[i].resolved # escalations[i].resolved) =>
                  /\ escalations'[i].resolved
                  /\ queries' = queries
      ]_vars

\* C36 witness: feedback was given on an escalated query: the query is DONE
\* and not escalated, its Escalation row is still unresolved
C36_Witness ==
    \E i \in 1..Len(escalations) :
        /\ ~escalations[i].resolved
        /\ HasFeedback(escalations[i].query_id)
        /\ queries[escalations[i].query_id].status = "DONE"
        /\ ~queries[escalations[i].query_id].escalated

\* --------------------------------------------------------------------- C37
\* C37: in every state every Query has escalated = true exactly when its
\* status is ESCALATED.
C37_EscalatedIffStatus ==
    \A q \in 1..Len(queries) :
        queries[q].escalated <=> (queries[q].status = "ESCALATED")

\* --------------------------------------------------------------------- C38
\* C38: a message is completed only after its result was sent, and no message
\* whose result is in the output queue is in the dead-letter queue or back in
\* the input queue after an abandon.
C38_PublishedNeverDeadLettered ==
    LET published == {consumer.out[i] : i \in 1..Len(consumer.out)}
    IN  /\ consumer.completed \subseteq published
        /\ \A i \in 1..Len(consumer.dead) : consumer.dead[i].id \notin published
        /\ \A i \in 1..Len(consumer.queue) :
              consumer.queue[i].delivery_count > 1 => consumer.queue[i].id \notin published

====
